---- MODULE Spec2Model ----
(***************************************************************************)
(* Model of the machi-ya report bot: the pre-filter, the adaptive rate     *)
(* limiter, the metrics fetcher, the concurrent batch and the fast         *)
(* harvester (src/utils.py, src/main_oauth_production.py).                 *)
(*                                                                         *)
(* A cell of the sheet is a string.  The id cell and the filler cells are  *)
(* TLA+ strings; the end-date cell is a sequence of characters, a digit d  *)
(* being the number d, "/" being SLASH and any other character LETTER, so   *)
(* that strptime is modelled as a parser.  Delays are in milliseconds.     *)
(***************************************************************************)
EXTENDS Integers, Sequences, FiniteSets, TLC

\* ------------------------------------------------------------------------
\* Bounds of the model
\* ------------------------------------------------------------------------
MaxRows == 2
MaxTargets == 2
MaxWorkers == 2
MaxErrors == 12
MaxSuccesses == 11
MaxCalls == 3
MaxOps == 4
MaxDebt == 2
MaxOver == 2

\* ------------------------------------------------------------------------
\* Characters of an end-date cell
\* ------------------------------------------------------------------------
SLASH == 10
LETTER == 11

IsDigit(c) == c \in 0..9

\* ------------------------------------------------------------------------
\* datetime.datetime.strptime(s, "%Y/%m/%d")
\* ------------------------------------------------------------------------
\* the positions of "/" in s
SlashPositions(s) == {k \in 1..Len(s) : s[k] = SLASH}

\* the value of a run of digits (most significant first)
RECURSIVE DigitsValue(_)
DigitsValue(ds) ==
    IF ds = << >> THEN 0
    ELSE 10 * DigitsValue(SubSeq(ds, 1, Len(ds) - 1)) + ds[Len(ds)]

AllDigits(ds) == \A k \in 1..Len(ds) : IsDigit(ds[k])

IsLeap(y) == (y % 4 = 0 /\ y % 100 # 0) \/ y % 400 = 0

DaysInMonth(y, m) ==
    IF m = 2 THEN (IF IsLeap(y) THEN 29 ELSE 28)
    ELSE IF m \in {4, 6, 9, 11} THEN 30 ELSE 31

\* what a raised ValueError is modelled as (no date has zero fields)
ValueError == << >>

\* The directive regexes of _strptime: %Y is \d\d\d\d, %m is
\* 1[0-2]|0[1-9]|[1-9], %d is 3[01]|[12]\d|0[1-9]|[1-9]; the whole string has
\* to be consumed and the fields have to name a day of the calendar.
\* The result is <<y, m, d>>, or ValueError.
strptime(s) ==
    LET sl == SlashPositions(s) IN
    IF Cardinality(sl) # 2 THEN ValueError
    ELSE
      LET p1 == CHOOSE k \in sl : \A j \in sl : k <= j
          p2 == CHOOSE k \in sl : \A j \in sl : k >= j
          fy == SubSeq(s, 1, p1 - 1)
          fm == SubSeq(s, p1 + 1, p2 - 1)
          fd == SubSeq(s, p2 + 1, Len(s))
          y  == DigitsValue(fy)
          m  == DigitsValue(fm)
          d  == DigitsValue(fd)
      IN  IF /\ AllDigits(fy) /\ Len(fy) = 4
             /\ AllDigits(fm) /\ Len(fm) \in {1, 2} /\ m \in 1..12
             /\ AllDigits(fd) /\ Len(fd) \in {1, 2} /\ d \in 1..31
             /\ y >= 1
             /\ d <= DaysInMonth(y, m)
          THEN <<y, m, d>>
          ELSE ValueError

\* is_valid_date_string: True unless strptime raises ValueError
is_valid_date_string(date_str) == strptime(date_str) # ValueError

\* the comparison written strictly: a > b
DateGT(a, b) ==
    \/ a[1] > b[1]
    \/ a[1] = b[1] /\ a[2] > b[2]
    \/ a[1] = b[1] /\ a[2] = b[2] /\ a[3] > b[3]

\* datetime.date comparison a >= b
DateGE(a, b) ==
    \/ a[1] > b[1]
    \/ a[1] = b[1] /\ a[2] > b[2]
    \/ a[1] = b[1] /\ a[2] = b[2] /\ a[3] >= b[3]

\* ------------------------------------------------------------------------
\* config.ERROR_MESSAGES and the status texts of the result tuples
\* ------------------------------------------------------------------------
\* (the texts are Japanese in the source; the model writes them in ASCII)
MSG_no_id == "ID-nashi"
MSG_skip == "skip"
MSG_date_parse_error == "date-parse-error"
MSG_fetch_failed == "shutoku-fuka"
ST_no_end_date == "no-end-date"
ST_not_in_window == "taishougai"
ST_fetch_error == "shutoku-error"
ST_ok == "shutoku-OK"
PLACEHOLDER == "-"

\* ------------------------------------------------------------------------
\* Reading a cell of a ragged row.  An expression either returns a value or
\* raises: Ret(v) and Raise(e) are the two outcomes.
\* ------------------------------------------------------------------------
Ret(v) == [raised |-> "", value |-> v]
Raise(e) == [raised |-> e, value |-> FALSE]

\* row_data[k] (k counted from 0): IndexError beyond the row's length
Subscript(row_data, k) ==
    IF k < Len(row_data) THEN Ret(row_data[k + 1]) ELSE Raise("IndexError")

\* the guard written len(row_data) >= k
HasCell_off_by_one(row_data, k) == Len(row_data) >= k

\* the guard len(row_data) > k
HasCell(row_data, k) == Len(row_data) > k

\* row_data[k] if len(row_data) > k else default
CellOr(row_data, k, default) ==
    IF HasCell(row_data, k) THEN Subscript(row_data, k) ELSE Ret(default)

\* row_data[0] if row_data else ""   (the GA4 path's guard is truthiness)
FirstCellOr(row_data, default) ==
    IF row_data # << >> THEN Subscript(row_data, 0) ELSE Ret(default)

\* ------------------------------------------------------------------------
\* should_fetch_project_data: the pre-filter
\* ------------------------------------------------------------------------
\* the last step: strptime again inside try / except ValueError
DateInWindow(end_date_str, target_date) ==
    LET project_end_date == strptime(end_date_str) IN
    IF project_end_date = ValueError THEN FALSE
    ELSE DateGE(project_end_date, target_date)

\* the pre-filter without its check of the project id
should_fetch_ignoring_id(row_data, target_date) ==
    LET ed == CellOr(row_data, 5, << >>) IN
    IF ed.raised # "" THEN ed
    ELSE IF ed.value = << >> THEN Ret(FALSE)
    ELSE IF ~is_valid_date_string(ed.value) THEN Ret(FALSE)
    ELSE Ret(DateInWindow(ed.value, target_date))

should_fetch_project_data(row_data, target_date) ==
    LET pj == CellOr(row_data, 0, "") IN
    IF pj.raised # "" THEN pj
    ELSE IF pj.value = "" THEN Ret(FALSE)
    ELSE
      LET ed == CellOr(row_data, 5, << >>) IN
      IF ed.raised # "" THEN ed
      ELSE IF ed.value = << >> THEN Ret(FALSE)
      ELSE IF ~is_valid_date_string(ed.value) THEN Ret(FALSE)
      ELSE Ret(DateInWindow(ed.value, target_date))

\* ------------------------------------------------------------------------
\* Result tuples
\* ------------------------------------------------------------------------
\* (row, pj_id, amount, count, status) of the production tools
Row5(i, pj_id, amount, count, status) ==
    [row |-> i, pj_id |-> pj_id, amount |-> amount, count |-> count,
     status |-> status]

\* (row, pj_id, sessions, status) of the GA4 tool
Row4(i, pj_id, sessions, status) ==
    [row |-> i, pj_id |-> pj_id, sessions |-> sessions, status |-> status]

\* phase 1 with the relabelling testing the date's format before its
\* presence
Phase1Row_format_first(row_data, i, target_date) ==
    LET pj == CellOr(row_data, 0, "")
        sf == should_fetch_project_data(row_data, target_date)
        ed == CellOr(row_data, 5, << >>)
        tag(st) == [kind |-> "result",
                    result |-> Row5(i, pj.value, PLACEHOLDER, PLACEHOLDER, st)]
    IN
    IF sf.value
      THEN [kind |-> "target", result |-> Row5(i, pj.value, "", "", "")]
    ELSE IF pj.value = ""
      THEN [kind |-> "result",
            result |-> Row5(i, MSG_no_id, PLACEHOLDER, PLACEHOLDER, MSG_skip)]
    ELSE IF ~is_valid_date_string(ed.value) THEN tag(MSG_date_parse_error)
    ELSE IF ed.value = << >> THEN tag(ST_no_end_date)
    ELSE tag(ST_not_in_window)

\* ------------------------------------------------------------------------
\* Phase 1 of process_production_project_data_fast, for one row: either the
\* row's terminal result (kind "result"), or its worklist entry (kind
\* "target"), or an exception leaving the harvester (kind "raise").
\* ------------------------------------------------------------------------
Phase1Row(row_data, i, target_date) ==
    LET pj == CellOr(row_data, 0, "")
        sf == should_fetch_project_data(row_data, target_date)
        ed == CellOr(row_data, 5, << >>)
        none == Row5(i, "", "", "", "")
    IN
    IF pj.raised # "" THEN [kind |-> "raise", result |-> none]
    ELSE IF sf.raised # "" THEN [kind |-> "raise", result |-> none]
    ELSE IF sf.value
      THEN [kind |-> "target", result |-> Row5(i, pj.value, "", "", "")]
    ELSE IF pj.value = ""
      THEN [kind |-> "result",
            result |-> Row5(i, MSG_no_id, PLACEHOLDER, PLACEHOLDER, MSG_skip)]
    ELSE IF ed.raised # "" THEN [kind |-> "raise", result |-> none]
    ELSE IF ed.value = << >>
      THEN [kind |-> "result",
            result |-> Row5(i, pj.value, PLACEHOLDER, PLACEHOLDER, ST_no_end_date)]
    ELSE IF ~is_valid_date_string(ed.value)
      THEN [kind |-> "result",
            result |-> Row5(i, pj.value, PLACEHOLDER, PLACEHOLDER,
                            MSG_date_parse_error)]
    ELSE [kind |-> "result",
          result |-> Row5(i, pj.value, PLACEHOLDER, PLACEHOLDER, ST_not_in_window)]

\* ------------------------------------------------------------------------
\* What one network request of get_campfire_data can come to
\* ------------------------------------------------------------------------
\*   "ok"         both p.backer-amount and p.backer found
\*   "no_amount"  the page has no p.backer-amount
\*   "no_count"   the page has no p.backer
\*   "net_err"    requests.exceptions.RequestException (timeout, DNS, non-2xx)
\*   "other_err"  any other exception while reading the response
NetOutcomes == {"ok", "no_amount", "no_count", "net_err", "other_err"}

\* the digits left by re.sub on the page's amount and backer texts
PageAmount(pj_id) == IF pj_id = "p1" THEN "1000" ELSE "2500"
PageCount(pj_id) == IF pj_id = "p1" THEN "10" ELSE "25"

\* the texts that contain the word "error" (the Japanese word in the source)
ERR_scraping_net == "error: network"
ERR_scraping_other == "error: other"
ERR_count == "error"
ERR_task == "error: RuntimeError"
ERR_sheets == "error: SheetsError"
ErrorTexts == {ERR_scraping_net, ERR_scraping_other, ERR_count, ERR_task,
               ERR_sheets,
               "unexpected-error: IndexError", "error: GA4Error",
               "error: AuthenticationError"}

\* the substring test  "error" in text
ContainsError(text) == text \in ErrorTexts

\* the except clauses letting an exception that is no RequestException
\* through as it was raised
FetchReturn_raw(pj_id, outcome) ==
    IF outcome = "net_err" THEN Raise("ScrapingError:network")
    ELSE IF outcome = "other_err" THEN Raise("AttributeError")
    ELSE Ret([amount |-> IF outcome = "no_amount" THEN MSG_fetch_failed
                         ELSE PageAmount(pj_id),
              count  |-> IF outcome = "no_count" THEN MSG_fetch_failed
                         ELSE PageCount(pj_id)])

\* what get_campfire_data returns or raises for a request outcome
FetchReturn(pj_id, outcome) ==
    IF outcome = "net_err" THEN Raise("ScrapingError:network")
    ELSE IF outcome = "other_err" THEN Raise("ScrapingError:other")
    ELSE Ret([amount |-> IF outcome = "no_amount" THEN MSG_fetch_failed
                         ELSE PageAmount(pj_id),
              count  |-> IF outcome = "no_count" THEN MSG_fetch_failed
                         ELSE PageCount(pj_id)])

\* the exceptions get_campfire_data raises itself: ScrapingError with a
\* detail text
ScrapingErrors == {"ScrapingError:network", "ScrapingError:other"}

\* What the call of get_campfire_data in a worker's task comes to.  The
\* outcome "task_err" is an exception that is no ScrapingError reaching the
\* task's except clause (raised outside the fetcher's try block).
TaskReturn(pj_id, outcome) ==
    IF outcome = "task_err" THEN Raise("RuntimeError")
    ELSE FetchReturn(pj_id, outcome)

\* str(e) behind the prefix of a status text
ErrorStatus(e) ==
    IF e = "ScrapingError:network" THEN ERR_scraping_net
    ELSE IF e = "ScrapingError:other" THEN ERR_scraping_other
    ELSE IF e = "GA4Error" THEN "error: GA4Error"
    ELSE IF e = "AuthenticationError" THEN "error: AuthenticationError"
    ELSE IF e = "SheetsError" THEN ERR_sheets
    ELSE "unexpected-error: IndexError"

\* ------------------------------------------------------------------------
\* process_production_project_data: the single-row path.  fetch says
\* whether get_campfire_data is called; outcome is what its request comes to.
\* ------------------------------------------------------------------------
process_production_project_data(row_data, row_index, target_date, outcome) ==
    LET pj == CellOr(row_data, 0, "")
        ed == CellOr(row_data, 5, << >>)
        fetched == FetchReturn(pj.value, outcome)
        skip(id, st) == [fetch |-> FALSE,
                         result |-> Row5(row_index, id, PLACEHOLDER, PLACEHOLDER, st)]
    IN
    IF pj.raised # "" THEN skip("fumei", ErrorStatus(pj.raised))
    ELSE IF ed.raised # "" THEN skip(pj.value, ErrorStatus(ed.raised))
    ELSE IF pj.value = "" THEN skip(MSG_no_id, MSG_skip)
    ELSE IF ed.value = << >> THEN skip(pj.value, ST_no_end_date)
    ELSE IF ~is_valid_date_string(ed.value) THEN skip(pj.value, MSG_date_parse_error)
    ELSE IF ~DateGE(strptime(ed.value), target_date) THEN skip(pj.value, ST_not_in_window)
    ELSE IF fetched.raised # ""
      THEN [fetch |-> TRUE,
            result |-> Row5(row_index, pj.value, PLACEHOLDER, PLACEHOLDER,
                            ErrorStatus(fetched.raised))]
    ELSE [fetch |-> TRUE,
          result |-> Row5(row_index, pj.value, fetched.value.amount,
                          fetched.value.count, ST_ok)]

\* ------------------------------------------------------------------------
\* get_ga4_sessions.  creds is the state of the credentials when the
\* function looks at them:
\*   "valid"        token.json holds valid credentials with the scopes
\*   "no_file"      no usable token and no credentials.json: line 469
\*                  raises AuthenticationError
\*   "refresh_err"  creds.refresh or the OAuth flow raises
\* report is what client.run_report comes to: "rows", "no_rows" or
\* "api_err".  The whole body is inside  try ... except Exception, which
\* raises GA4Error for whatever was raised inside.
\* ------------------------------------------------------------------------
CredStates == {"valid", "no_file", "refresh_err"}
ReportOutcomes == {"rows", "no_rows", "api_err"}

AuthFailures == {"no_file", "refresh_err"}

get_ga4_sessions(creds, report) ==
    LET body == IF creds = "no_file" THEN Raise("AuthenticationError")
                ELSE IF creds = "refresh_err" THEN Raise("RefreshError")
                ELSE IF report = "api_err" THEN Raise("ApiError")
                ELSE IF report = "rows" THEN Ret("42")
                ELSE Ret("0")
    IN  IF body.raised # "" THEN Raise("GA4Error") ELSE body

\* ------------------------------------------------------------------------
\* process_ga4_project_data: the GA4 path.  fetched is what get_ga4_sessions
\* gives: Ret(sessions) or Raise("GA4Error").
\* ------------------------------------------------------------------------
process_ga4_project_data(row_data, row_index, target_date, fetched) ==
    LET pj == FirstCellOr(row_data, "")
        ed == CellOr(row_data, 5, << >>)
        skip(id, st) == [fetch |-> FALSE,
                         result |-> Row4(row_index, id, PLACEHOLDER, st)]
    IN
    IF pj.raised # "" THEN skip("fumei", ErrorStatus(pj.raised))
    ELSE IF pj.value = "" THEN skip(MSG_no_id, MSG_skip)
    ELSE IF ed.raised # "" THEN skip(pj.value, ErrorStatus(ed.raised))
    ELSE IF ed.value = << >> THEN skip(pj.value, ST_no_end_date)
    ELSE IF ~is_valid_date_string(ed.value) THEN skip(pj.value, MSG_date_parse_error)
    ELSE IF ~DateGE(strptime(ed.value), target_date) THEN skip(pj.value, ST_not_in_window)
    ELSE IF fetched.raised # ""
      THEN [fetch |-> TRUE,
            result |-> Row4(row_index, pj.value, PLACEHOLDER,
                            ErrorStatus(fetched.raised))]
    ELSE [fetch |-> TRUE,
          result |-> Row4(row_index, pj.value, fetched.value, ST_ok)]

\* ------------------------------------------------------------------------
\* AdaptiveRateLimiter
\* ------------------------------------------------------------------------
Max(a, b) == IF a >= b THEN a ELSE b
Min(a, b) == IF a <= b THEN a ELSE b

RECURSIVE IntPow(_, _)
IntPow(b, n) == IF n = 0 THEN 1 ELSE b * IntPow(b, n - 1)

\* e^(y/10000) in thousandths, by the exponential series (0 <= y < 10000)
ExpMilli(y) ==
    LET t1 == (1000 * y) \div 10000
        t2 == (t1 * y) \div 20000
        t3 == (t2 * y) \div 30000
        t4 == (t3 * y) \div 40000
    IN  1000 + t1 + t2 + t3 + t4

\* base_delay * (1.5 ** (error_rate * 10)) in milliseconds, where
\* error_rate = error_count / max(1, error_count + success_count).
\* The exponent x = 10 * errors / n is split into its whole part q and its
\* fraction r / n:  1.5^x = (3^q / 2^q) * e^((r / n) * ln 1.5), ln 1.5 being
\* 0.4055 (4055 ten-thousandths).
RawDelay(base, errors, successes) ==
    LET n == Max(1, errors + successes)
        q == (10 * errors) \div n
        r == (10 * errors) % n
        y == (r * 4055) \div n
    IN  (((base * IntPow(3, q)) \div IntPow(2, q)) * ExpMilli(y)) \div 1000

\* the delay without its cap
dynamic_delay_uncapped(base, maxd, errors, successes) ==
    RawDelay(base, errors, successes)

\* dynamic_delay = min(base_delay * 1.5 ** (error_rate * 10), max_delay)
dynamic_delay(base, maxd, errors, successes) ==
    Min(RawDelay(base, errors, successes), maxd)

\* the decay applied at every success
ErrorCountAfterSuccess_every(errors, s1) ==
    IF errors > 0 THEN Max(0, errors - 1) ELSE errors

\* a record_success that never takes an error off
ErrorCountAfterSuccess_never(errors, s1) == errors

\* error_count after record_success, s1 being the incremented success_count
ErrorCountAfterSuccess(errors, s1) ==
    IF s1 % 5 = 0 /\ errors > 0 THEN Max(0, errors - 1) ELSE errors

\* error_count after record_error
ErrorCountAfterError(errors) == errors + 1

\* ------------------------------------------------------------------------
\* State
\* ------------------------------------------------------------------------
VARIABLES
    \* inputs of one run of the tool
    rows,           \* the rows read from the sheet
    start_row,      \* the sheet row of rows[1]
    target_date,    \* the date picked by the operator
    max_workers,    \* the size of the worker pool
    has_callback,   \* whether a progress callback is passed
    \* process_production_project_data_fast and its caller
    hpc,            \* where the calling thread stands
    next_i,         \* position in rows of the row phase 1 looks at next
    valid_count,    \* the count shown before the harvest (fetch step)
    results,        \* the harvester's results list
    fetch_targets,  \* the worklist, <<row_index, pj_id>> pairs
    fetch_results,  \* what the batch function returned
    progress,       \* the fractions passed to the callback, in thousandths
    \* get_campfire_data_batch and the calls of get_campfire_data
    tasks,          \* one record per call of get_campfire_data
    collected,      \* the batch's results list, in completion order
    \* the global AdaptiveRateLimiter
    base_delay, max_delay, error_count, success_count,
    lock,           \* 0, or the task holding _lock
    last_delay,     \* dynamic_delay of the latest wait()
    win,            \* the latest record_success / record_error calls
    \* the three row paths applied to one row
    paths,
    \* the fetch step of the GA4 tool
    session_results,  \* st.session_state["results"]
    shown,            \* the message the fetch step ends with
    auth_failures,    \* the rows at whose fetch the authentication failed
    \* the limiter's clock, in milliseconds
    elapsed,          \* time.time() - last_request_time, up to ElapsedCap
    sleep_left,       \* per thread, what is left of its sleep inside wait()
    dispatched,       \* the returns from wait(): how many, and the latest
    committed,        \* the counters at the start and after each record call
    \* the module globals of src/utils.py
    global_limiter,   \* _global_rate_limiter: 0 (None) or an instance
    global_session,   \* _global_session: 0 (None) or an instance
    limiters_made,    \* AdaptiveRateLimiter instances constructed so far
    sessions_made,    \* requests.Session instances constructed so far
    \* the write step of a tool
    writer            \* its position, batch_data, the batches sent, write_log

vars == <<rows, start_row, target_date, max_workers, has_callback,
          hpc, next_i, valid_count, results, fetch_targets, fetch_results,
          progress, tasks, collected,
          base_delay, max_delay, error_count, success_count, lock,
          last_delay, win, paths,
          session_results, shown, auth_failures, elapsed, sleep_left,
          dispatched, committed,
          global_limiter, global_session, limiters_made, sessions_made,
          writer>>

inputVars == <<rows, start_row, target_date, max_workers, has_callback>>
harvestVars == <<hpc, next_i, valid_count, results, fetch_targets,
                 fetch_results, progress>>
limiterCfg == <<base_delay, max_delay>>
limiterVars == <<error_count, success_count, lock, last_delay, win>>
runVars == <<session_results, shown, auth_failures>>
clockVars == <<elapsed, sleep_left, dispatched, committed>>
globalVars == <<global_limiter, global_session, limiters_made, sessions_made>>
restVars == <<runVars, clockVars, globalVars, writer>>

\* ------------------------------------------------------------------------
\* The limiter's methods
\* ------------------------------------------------------------------------
\* the window of the latest limiter records kept for the properties
WinLen == 5

Remember(entry) ==
    IF Len(win) < WinLen THEN Append(win, entry)
    ELSE Append(SubSeq(win, 2, Len(win)), entry)

\* record_success(), under _lock
record_success ==
    /\ success_count' = success_count + 1
    /\ error_count' = ErrorCountAfterSuccess(error_count, success_count + 1)
    /\ win' = Remember([op |-> "record_success", errors |-> error_count,
                        successes |-> success_count])

\* record_error(), under _lock
record_error ==
    /\ error_count' = ErrorCountAfterError(error_count)
    /\ success_count' = success_count
    /\ win' = Remember([op |-> "record_error", errors |-> error_count,
                        successes |-> success_count])

\* a lock that is taken without waiting for its holder
Acquire_unlocked(t) == lock' = t

\* with self._lock: the thread goes on when no thread holds the lock
Acquire(t) ==
    /\ lock = 0
    /\ lock' = t

\* sleep_time = max(0, dynamic_delay - elapsed)
sleep_time(delay, since) == Max(0, delay - since)

\* the first half of wait(): take _lock and compute dynamic_delay; the
\* thread then sleeps holding the lock
wait_enter(t) ==
    /\ Acquire(t)
    /\ last_delay' = dynamic_delay(base_delay, max_delay, error_count,
                                   success_count)

\* a wait() that returns without giving the lock back
wait_exit_held(t) ==
    /\ lock = t
    /\ lock' = t

\* the second half of wait(): last_request_time is set, _lock released
wait_exit(t) ==
    /\ lock = t
    /\ lock' = 0

\* ------------------------------------------------------------------------
\* get_campfire_data, one call per task record
\* ------------------------------------------------------------------------
\* pc of a task: "queued" (submitted, no worker yet), "called", "sleeping"
\* (inside wait), "request" (the GET is out), "returned"
\* calls counts the invocations of get_campfire_data for the task; raised
\* is the exception the call left with ("" while it runs or when it returned)
NewTask(pj_id, flag, pc) ==
    [pj_id |-> pj_id, use_rate_limit |-> flag, pc |-> pc, outcome |-> "",
     log |-> << >>, raised |-> "",
     calls |-> IF pc = "called" THEN 1 ELSE 0]

\* log: the limiter methods called and the request sent, in order
SetTask(t, pc, outcome, events) ==
    tasks' = [tasks EXCEPT ![t] =
                [@ EXCEPT !.pc = pc, !.outcome = outcome,
                          !.log = @ \o events,
                          !.raised = IF outcome = "" THEN ""
                                     ELSE TaskReturn(tasks[t].pj_id, outcome).raised,
                          !.calls = IF pc = "called" THEN @ + 1 ELSE @]]

\* if use_rate_limit: rate_limiter.wait()      -- entering
FetchWaitEnter(t) ==
    /\ tasks[t].pc = "called"
    /\ tasks[t].use_rate_limit
    /\ wait_enter(t)
    /\ SetTask(t, "sleeping", "", << >>)
    /\ UNCHANGED <<error_count, success_count, win>>

\* if use_rate_limit: rate_limiter.wait()      -- leaving, then session.get
FetchWaitExit(t) ==
    /\ tasks[t].pc = "sleeping"
    /\ wait_exit(t)
    /\ SetTask(t, "request", "", <<"wait", "request">>)
    /\ UNCHANGED <<error_count, success_count, win, last_delay>>

\* the request sent without wait() whatever use_rate_limit says
FetchNoWait_unguarded(t) ==
    /\ tasks[t].pc = "called"
    /\ SetTask(t, "request", "", <<"request">>)
    /\ UNCHANGED limiterVars

\* use_rate_limit is False: straight to session.get
FetchNoWait(t) ==
    /\ tasks[t].pc = "called"
    /\ ~tasks[t].use_rate_limit
    /\ SetTask(t, "request", "", <<"request">>)
    /\ UNCHANGED limiterVars

\* which method the fetcher calls on the limiter after the request
RecordFor(outcome) ==
    IF outcome \in {"net_err", "other_err"} THEN "record_error"
    ELSE "record_success"

\* the fetcher calling itself once more after a failed request
FetchRespond_retry(t, o) ==
    /\ tasks[t].pc = "request"
    /\ lock = 0
    /\ IF RecordFor(o) = "record_error" THEN record_error ELSE record_success
    /\ IF RecordFor(o) = "record_error" /\ tasks[t].calls < 2
       THEN SetTask(t, "called", "", <<RecordFor(o)>>)
       ELSE SetTask(t, "returned", o, <<RecordFor(o)>>)
    /\ UNCHANGED <<lock, last_delay>>

\* session.get answers or fails (outcome o); then, if use_rate_limit,
\* record_success() / record_error(); then the call returns or raises.
\* The answer is drawn when the thread has the limiter's lock: nothing reads
\* it before.
FetchRespond(t, o) ==
    /\ tasks[t].pc = "request"
    /\ IF tasks[t].use_rate_limit
       THEN /\ lock = 0
            /\ IF RecordFor(o) = "record_error"
               THEN record_error ELSE record_success
            /\ SetTask(t, "returned", o, <<RecordFor(o)>>)
       ELSE /\ SetTask(t, "returned", o, << >>)
            /\ UNCHANGED <<error_count, success_count, win>>
    /\ UNCHANGED <<lock, last_delay>>

\* ------------------------------------------------------------------------
\* get_campfire_data_batch
\* ------------------------------------------------------------------------
\* fetch_single_project: (pj_id, data), an exception becoming error texts
fetch_single_project(pj_id, outcome) ==
    LET r == TaskReturn(pj_id, outcome) IN
    IF r.raised \in ScrapingErrors
    THEN <<pj_id, [amount |-> ErrorStatus(r.raised), count |-> ERR_count]>>
    ELSE IF r.raised # ""
    THEN <<pj_id, [amount |-> ERR_task, count |-> ERR_count]>>
    ELSE <<pj_id, r.value>>

\* the tasks a worker of the pool is running
Running == {t \in 1..Len(tasks) :
              tasks[t].pc \in {"called", "sleeping", "request"}}

\* a pool that starts a thread for every task submitted
PoolHasIdleWorker_unbounded == TRUE

\* ThreadPoolExecutor(max_workers=max_workers): a queued task starts when
\* fewer than max_workers tasks are running
PoolHasIdleWorker == Cardinality(Running) < max_workers

\* a batch that stops collecting at the first future that is done
AllReturned_first == \E t \in 1..Len(tasks) : tasks[t].pc = "returned"

\* as_completed has yielded every future, and the with block of the
\* executor has been left (shutdown waits for the workers)
AllReturned == \A t \in 1..Len(tasks) : tasks[t].pc = "returned"

\* dict(results).get(pj_id, default): the last pair with that key wins
DictGet(pairs, key, default) ==
    LET ks == {k \in 1..Len(pairs) : pairs[k][1] = key} IN
    IF ks = {} THEN default
    ELSE pairs[CHOOSE k \in ks : \A j \in ks : j <= k][2]

\* ordered_results of get_campfire_data_batch
ordered_results(project_ids, pairs) ==
    [k \in 1..Len(project_ids) |->
        <<project_ids[k],
          DictGet(pairs, project_ids[k],
                  [amount |-> MSG_fetch_failed, count |-> MSG_fetch_failed])>>]

\* the fraction the batch reports after done of total fetches, in
\* thousandths
BatchFraction(done, total) == (1000 * done) \div total

\* ------------------------------------------------------------------------
\* process_production_project_data_fast
\* ------------------------------------------------------------------------
\* the fetch phase's fraction added to 0.2 without the factor 0.7
ScaledFraction_unscaled(p) == 200 + p

\* lambda p, msg: progress_callback(0.2 + p * 0.7, msg)
ScaledFraction(p) == 200 + (p * 700) \div 1000

Report(fractions) ==
    progress' = IF has_callback THEN progress \o fractions ELSE progress

\* a merge that leaves the fetched texts in a failed row
MergeOne_keep(target, fetched) ==
    LET amount == fetched[2].amount
        count == fetched[2].count
    IN  IF ContainsError(amount) \/ amount = MSG_fetch_failed
        THEN Row5(target[1], target[2], amount, count, ST_fetch_error)
        ELSE Row5(target[1], target[2], amount, count, ST_ok)

\* the merge of one worklist entry with its fetch result
MergeOne(target, fetched) ==
    LET amount == fetched[2].amount
        count == fetched[2].count
    IN  IF ContainsError(amount) \/ amount = MSG_fetch_failed
        THEN Row5(target[1], target[2], PLACEHOLDER, PLACEHOLDER, ST_fetch_error)
        ELSE Row5(target[1], target[2], amount, count, ST_ok)

\* for ... in zip(fetch_targets, fetch_results): results.append(...)
Merged(targets, fetched) ==
    [k \in 1..Min(Len(targets), Len(fetched)) |-> MergeOne(targets[k], fetched[k])]

\* the results left in the order of the merge
SortByRow_unsorted(rs) == rs

\* results.sort(key=lambda x: x[0]): a stable sort by row index
RECURSIVE InsertByRow(_, _)
InsertByRow(sorted, r) ==
    IF sorted = << >> THEN <<r>>
    ELSE IF sorted[Len(sorted)].row <= r.row THEN Append(sorted, r)
    ELSE Append(InsertByRow(SubSeq(sorted, 1, Len(sorted) - 1), r),
                sorted[Len(sorted)])

RECURSIVE SortByRow(_)
SortByRow(rs) ==
    IF rs = << >> THEN << >>
    ELSE InsertByRow(SortByRow(SubSeq(rs, 1, Len(rs) - 1)), rs[Len(rs)])


\* ------------------------------------------------------------------------
\* Inputs
\* ------------------------------------------------------------------------
D_0531 == <<2, 0, 2, 4, SLASH, 0, 5, SLASH, 3, 1>>
D_0601 == <<2, 0, 2, 4, SLASH, 0, 6, SLASH, 0, 1>>
D_0602 == <<2, 0, 2, 4, SLASH, 0, 6, SLASH, 0, 2>>
D_1345 == <<2, 0, 2, 4, SLASH, 1, 3, SLASH, 4, 5>>

RowOf(pj_id, end_date_str) == <<pj_id, "", "", "", "", end_date_str>>

\* the rows a harvest is run on: one of each kind the harvester tells apart
HarvestRows ==
    { << >>,                      \* no cell at all
      RowOf("", D_0601),          \* no id, a date in the window
      <<"p1">>,                   \* an id and nothing else
      RowOf("p1", D_1345),        \* a date that does not parse
      RowOf("p2", D_0531),        \* the day before the target date
      RowOf("p1", D_0601),        \* the target date itself
      RowOf("p2", D_0602) }       \* the day after

RECURSIVE SeqsUpTo(_, _)
SeqsUpTo(S, n) ==
    IF n = 0 THEN {<< >>}
    ELSE LET shorter == SeqsUpTo(S, n - 1) IN
         shorter \cup {Append(q, x) : q \in shorter, x \in S}

TargetDate == <<2024, 6, 1>>

Eligible(row_data, date) ==
    LET sf == should_fetch_project_data(row_data, date) IN
    sf.raised = "" /\ sf.value

EligibleCount(rs, date) ==
    Cardinality({k \in 1..Len(rs) : Eligible(rs[k], date)})

\* the global limiter: AdaptiveRateLimiter(base_delay=0.5, max_delay=3.0)
GlobalBaseDelay == 500
GlobalMaxDelay == 3000

\* the defaults of __init__: base_delay=0.5, max_delay=5.0
DefaultBaseDelay == 500
DefaultMaxDelay == 5000

FreshLimiter ==
    /\ error_count = 0
    /\ success_count = 0
    /\ lock = 0
    /\ last_delay = 0
    /\ win = << >>

IdleHarvest ==
    /\ hpc = "idle"
    /\ next_i = 1
    /\ valid_count = 0
    /\ results = << >>
    /\ fetch_targets = << >>
    /\ fetch_results = << >>
    /\ progress = << >>
    /\ tasks = << >>
    /\ collected = << >>

\* a limiter that has let no request through: last_request_time is 0.0
\* and time.time() is the time since 1970
ElapsedCap == DefaultMaxDelay + GlobalBaseDelay

\* an entry of committed: the call and the counters it left
Entry(op, errors, successes) ==
    [op |-> op, errors |-> errors, successes |-> successes]

FreshClock ==
    /\ elapsed = ElapsedCap
    /\ sleep_left = << >>
    /\ dispatched = [n |-> 0, gap |-> ElapsedCap, delay |-> 0, slept |-> 0]
    /\ committed = <<Entry("start", error_count, success_count)>>

\* the globals as get_global_session and get_global_rate_limiter leave
\* them after their first calls
GlobalsMade ==
    /\ global_limiter = 1
    /\ global_session = 1
    /\ limiters_made = 1
    /\ sessions_made = 1

\* the write step before its button is pressed
IdleWriter ==
    [pc |-> "idle", tool |-> "", idx |-> 0, batch_data |-> << >>,
     sent |-> << >>, write_log |-> << >>]

NoFetchStep ==
    /\ session_results = << >>
    /\ shown = ""
    /\ auth_failures = << >>
    /\ writer = IdleWriter

IdleRest ==
    /\ NoFetchStep
    /\ FreshClock
    /\ GlobalsMade

Init ==
    /\ rows \in {rs \in SeqsUpTo(HarvestRows, MaxRows) :
                    EligibleCount(rs, TargetDate) <= MaxTargets}
    /\ start_row = 2
    /\ target_date = TargetDate
    /\ max_workers \in 1..MaxWorkers
    /\ has_callback \in BOOLEAN
    /\ base_delay = GlobalBaseDelay
    /\ max_delay = GlobalMaxDelay
    /\ FreshLimiter
    /\ IdleHarvest
    /\ IdleRest
    /\ paths = << >>

\* ------------------------------------------------------------------------
\* The fetch step of the production tool in fast mode, and the harvester
\* ------------------------------------------------------------------------
\* the button handler up to the call of the harvester: valid_count
StartFast ==
    /\ hpc = "idle"
    /\ valid_count' = EligibleCount(rows, target_date)
    /\ hpc' = "phase1"
    /\ UNCHANGED <<next_i, results, fetch_targets, fetch_results, progress,
                   tasks, collected, paths>>
    /\ UNCHANGED <<inputVars, limiterCfg, restVars, limiterVars>>

\* Phase 1, one row
Phase1Step ==
    /\ hpc = "phase1"
    /\ next_i <= Len(rows)
    /\ LET r == Phase1Row(rows[next_i], start_row + next_i - 1, target_date) IN
       /\ hpc' = IF r.kind = "raise" THEN "raised" ELSE hpc
       /\ results' = IF r.kind = "result" THEN Append(results, r.result)
                     ELSE results
       /\ fetch_targets' = IF r.kind = "target"
                           THEN Append(fetch_targets, <<r.result.row, r.result.pj_id>>)
                           ELSE fetch_targets
    /\ next_i' = next_i + 1
    /\ UNCHANGED <<valid_count, fetch_results, progress, tasks, collected, paths>>
    /\ UNCHANGED <<inputVars, limiterCfg, restVars, limiterVars>>

\* the end of phase 1: the callback at 0.2; with a worklist, the batch
\* function submits every project id to the pool
Phase1Done ==
    /\ hpc = "phase1"
    /\ next_i > Len(rows)
    /\ Report(<<200>>)
    /\ IF fetch_targets # << >>
       THEN /\ tasks' = [k \in 1..Len(fetch_targets) |->
                            NewTask(fetch_targets[k][2], TRUE, "queued")]
            /\ hpc' = "fetching"
       ELSE /\ tasks' = tasks
            /\ hpc' = "merged"
    /\ UNCHANGED <<next_i, valid_count, results, fetch_targets, fetch_results,
                   collected, paths>>
    /\ UNCHANGED <<inputVars, limiterCfg, restVars, limiterVars>>

\* a worker of the pool takes a queued task and calls get_campfire_data
WorkerStart(t) ==
    /\ hpc = "fetching"
    /\ tasks[t].pc = "queued"
    /\ PoolHasIdleWorker
    /\ SetTask(t, "called", "", << >>)
    /\ UNCHANGED <<harvestVars, collected, paths>>
    /\ UNCHANGED <<inputVars, limiterCfg, restVars, limiterVars>>

WorkerWaitEnter(t) ==
    /\ hpc = "fetching"
    /\ FetchWaitEnter(t)
    /\ UNCHANGED <<harvestVars, collected, paths, inputVars, limiterCfg, restVars>>

WorkerWaitExit(t) ==
    /\ hpc = "fetching"
    /\ FetchWaitExit(t)
    /\ UNCHANGED <<harvestVars, collected, paths, inputVars, limiterCfg, restVars>>

\* the fetch of task t ends; the future completes and as_completed hands
\* it to the calling thread, which appends it and reports the progress
WorkerFinish(t) ==
    /\ hpc = "fetching"
    /\ \E o \in NetOutcomes :
         /\ FetchRespond(t, o)
         /\ collected' = Append(collected, fetch_single_project(tasks[t].pj_id, o))
    /\ Report(<<ScaledFraction(BatchFraction(Len(collected) + 1, Len(tasks)))>>)
    /\ UNCHANGED <<hpc, next_i, valid_count, results, fetch_targets,
                   fetch_results, paths>>
    /\ UNCHANGED <<inputVars, limiterCfg, restVars>>

\* the task of a worker raises an exception that is no ScrapingError
\* before the fetcher's try block is entered: the limiter is not touched,
\* fetch_single_project turns the exception into its error texts, and the
\* future completes like any other
WorkerCrash(t) ==
    /\ hpc = "fetching"
    /\ tasks[t].pc = "called"
    /\ SetTask(t, "returned", "task_err", << >>)
    /\ collected' = Append(collected,
                           fetch_single_project(tasks[t].pj_id, "task_err"))
    /\ Report(<<ScaledFraction(BatchFraction(Len(collected) + 1, Len(tasks)))>>)
    /\ UNCHANGED <<hpc, next_i, valid_count, results, fetch_targets,
                   fetch_results, paths>>
    /\ UNCHANGED <<inputVars, limiterCfg, restVars, limiterVars>>

\* every future is done: the batch returns ordered_results and the
\* harvester merges them into results
BatchReturn ==
    /\ hpc = "fetching"
    /\ AllReturned
    /\ LET project_ids == [k \in 1..Len(fetch_targets) |-> fetch_targets[k][2]]
           fr == ordered_results(project_ids, collected)
       IN  /\ fetch_results' = fr
           /\ results' = results \o Merged(fetch_targets, fr)
    /\ hpc' = "merged"
    /\ UNCHANGED <<next_i, valid_count, fetch_targets, progress, tasks,
                   collected, paths>>
    /\ UNCHANGED <<inputVars, limiterCfg, restVars, limiterVars>>

\* the callback at 0.9, the sort, the callback at 1.0, the return
Finish ==
    /\ hpc = "merged"
    /\ Report(<<900, 1000>>)
    /\ results' = SortByRow(results)
    /\ hpc' = "done"
    /\ UNCHANGED <<next_i, valid_count, fetch_targets, fetch_results, tasks,
                   collected, paths>>
    /\ UNCHANGED <<inputVars, limiterCfg, restVars, limiterVars>>

\* the exit button (os._exit(0)), pressed at any moment in a browser session
\* of the app: the process ends at once, with the threads of the pool; a
\* fetch that a worker was running is cut off where it stood, a task still
\* in the pool's queue never starts
Exit ==
    /\ hpc # "exited"
    /\ hpc' = "exited"
    /\ tasks' = [t \in 1..Len(tasks) |->
                    IF t \in Running THEN [tasks[t] EXCEPT !.pc = "aborted"]
                    ELSE tasks[t]]
    /\ UNCHANGED <<next_i, valid_count, results, fetch_targets, fetch_results,
                   progress, collected, paths>>
    /\ UNCHANGED <<inputVars, limiterCfg, restVars, limiterVars>>

Next ==
    \/ StartFast
    \/ Phase1Step
    \/ Phase1Done
    \/ \E t \in 1..Len(tasks) : WorkerStart(t)
    \/ \E t \in 1..Len(tasks) : WorkerWaitEnter(t)
    \/ \E t \in 1..Len(tasks) : WorkerWaitExit(t)
    \/ \E t \in 1..Len(tasks) : WorkerFinish(t)
    \/ \E t \in 1..Len(tasks) : WorkerCrash(t)
    \/ BatchReturn
    \/ Finish
    \/ Exit

Spec == Init /\ [][Next]_vars

\* A harvest that is left to run: the exit button is not pressed.  Once
\* phase 1 has built the worklist, a thread that can take a step is
\* scheduled in the end: a request returns or times out, a sleep ends, a
\* released lock is taken, the pool's results are collected
PoolStep ==
    \/ Phase1Done
    \/ \E t \in 1..Len(tasks) : WorkerStart(t)
    \/ \E t \in 1..Len(tasks) : WorkerWaitEnter(t)
    \/ \E t \in 1..Len(tasks) : WorkerWaitExit(t)
    \/ \E t \in 1..Len(tasks) : WorkerFinish(t)
    \/ \E t \in 1..Len(tasks) : WorkerCrash(t)
    \/ BatchReturn
    \/ Finish

NextRun ==
    \/ StartFast
    \/ Phase1Step
    \/ PoolStep

SpecRun == Init /\ [][NextRun]_vars /\ WF_vars(PoolStep)

\* ------------------------------------------------------------------------
\* The limiter on its own: a thread calling wait(), record_success() and
\* record_error() in any order, on a limiter built with the defaults of
\* __init__ or with the arguments of get_global_rate_limiter
\* ------------------------------------------------------------------------
NoRun ==
    /\ rows = << >>
    /\ start_row = 2
    /\ target_date = TargetDate
    /\ max_workers = 1
    /\ has_callback = FALSE

InitLimiter ==
    /\ NoRun
    /\ \/ base_delay = GlobalBaseDelay /\ max_delay = GlobalMaxDelay
       \/ base_delay = DefaultBaseDelay /\ max_delay = DefaultMaxDelay
    /\ FreshLimiter
    /\ IdleHarvest
    /\ IdleRest
    /\ paths = << >>

LimiterWaitEnter ==
    /\ wait_enter(1)
    /\ UNCHANGED <<error_count, success_count, win>>
    /\ UNCHANGED <<inputVars, harvestVars, tasks, collected, limiterCfg, restVars, paths>>

LimiterWaitExit ==
    /\ wait_exit(1)
    /\ UNCHANGED <<error_count, success_count, win, last_delay>>
    /\ UNCHANGED <<inputVars, harvestVars, tasks, collected, limiterCfg, restVars, paths>>

LimiterRecordSuccess ==
    /\ lock = 0
    /\ success_count < MaxSuccesses
    /\ record_success
    /\ UNCHANGED <<lock, last_delay>>
    /\ UNCHANGED <<inputVars, harvestVars, tasks, collected, limiterCfg, restVars, paths>>

LimiterRecordError ==
    /\ lock = 0
    /\ error_count < MaxErrors
    /\ record_error
    /\ UNCHANGED <<lock, last_delay>>
    /\ UNCHANGED <<inputVars, harvestVars, tasks, collected, limiterCfg, restVars, paths>>

NextLimiter ==
    \/ LimiterWaitEnter
    \/ LimiterWaitExit
    \/ LimiterRecordSuccess
    \/ LimiterRecordError

SpecLimiter == InitLimiter /\ [][NextLimiter]_vars

\* ------------------------------------------------------------------------
\* The fetcher on its own: calls of get_campfire_data(pj_id, timeout,
\* use_rate_limit), one after the other as the single-row tools make them
\* ------------------------------------------------------------------------
InitFetcher ==
    /\ NoRun
    /\ base_delay = GlobalBaseDelay
    /\ max_delay = GlobalMaxDelay
    /\ FreshLimiter
    /\ IdleHarvest
    /\ IdleRest
    /\ paths = << >>

CallFetcher(flag) ==
    /\ Len(tasks) < MaxCalls
    /\ AllReturned
    /\ tasks' = Append(tasks, NewTask("p1", flag, "called"))
    /\ UNCHANGED <<inputVars, harvestVars, collected, limiterCfg, restVars, limiterVars, paths>>

CallWaitEnter(t) ==
    /\ FetchWaitEnter(t)
    /\ UNCHANGED <<inputVars, harvestVars, collected, limiterCfg, restVars, paths>>

CallWaitExit(t) ==
    /\ FetchWaitExit(t)
    /\ UNCHANGED <<inputVars, harvestVars, collected, limiterCfg, restVars, paths>>

CallNoWait(t) ==
    /\ FetchNoWait(t)
    /\ UNCHANGED <<inputVars, harvestVars, collected, limiterCfg, restVars, paths>>

CallRespond(t) ==
    /\ \E o \in NetOutcomes : FetchRespond(t, o)
    /\ UNCHANGED <<inputVars, harvestVars, collected, limiterCfg, restVars, paths>>

NextFetcher ==
    \/ \E flag \in BOOLEAN : CallFetcher(flag)
    \/ \E t \in 1..Len(tasks) : CallWaitEnter(t)
    \/ \E t \in 1..Len(tasks) : CallWaitExit(t)
    \/ \E t \in 1..Len(tasks) : CallNoWait(t)
    \/ \E t \in 1..Len(tasks) : CallRespond(t)

SpecFetcher == InitFetcher /\ [][NextFetcher]_vars

\* ------------------------------------------------------------------------
\* The three row paths on one row: phase 1 of the fast harvester, the
\* single-row path and the GA4 path, each applied to the same row and date
\* ------------------------------------------------------------------------
D_short == <<2, 0, 2, 4, SLASH, 6, SLASH, 1>>                \* 2024/6/1
D_0230 == <<2, 0, 2, 4, SLASH, 0, 2, SLASH, 3, 0>>           \* 2024/02/30
D_0229 == <<2, 0, 2, 4, SLASH, 0, 2, SLASH, 2, 9>>           \* 2024/02/29
D_2025 == <<2, 0, 2, 5, SLASH, 0, 1, SLASH, 0, 1>>           \* 2025/01/01
D_yy == <<2, 4, SLASH, 0, 6, SLASH, 0, 1>>                   \* 24/06/01
D_dash == <<2, 0, 2, 4, LETTER, 0, 6, LETTER, 0, 1>>         \* 2024-06-01
D_tail == <<2, 0, 2, 4, SLASH, 0, 6, SLASH, 0, 1, LETTER>>   \* 2024/06/01x
D_zero == <<2, 0, 2, 4, SLASH, 0, 0, SLASH, 0, 1>>           \* 2024/00/01

FilterDates == {D_0531, D_0601, D_0602, D_1345, D_short, D_0230, D_0229,
                D_2025, D_yy, D_dash, D_tail, D_zero}

\* the rows of every length from 0 to the 6 columns of the range E:J
FilterRows ==
    {<< >>}
    \cup {SubSeq(RowOf(id, << >>), 1, n) : id \in {"", "p1"}, n \in 1..6}
    \cup {RowOf(id, d) : id \in {"", "p1"}, d \in FilterDates}

FilterTargets == {<<2024, 5, 31>>, <<2024, 6, 1>>, <<2024, 6, 2>>}

InitFilter ==
    /\ rows \in {<<r>> : r \in FilterRows}
    /\ start_row = 2
    /\ target_date \in FilterTargets
    /\ max_workers = 1
    /\ has_callback = FALSE
    /\ base_delay = GlobalBaseDelay
    /\ max_delay = GlobalMaxDelay
    /\ FreshLimiter
    /\ IdleHarvest
    /\ IdleRest
    /\ paths = [fast |-> << >>, again |-> << >>, single |-> << >>, ga4 |-> << >>]

PathUnchanged ==
    UNCHANGED <<inputVars, harvestVars, tasks, collected, limiterCfg, restVars, limiterVars>>

\* phase 1 of the fast harvester on the row
RunFast ==
    /\ paths.fast = << >>
    /\ paths' = [paths EXCEPT !.fast = <<Phase1Row(rows[1], start_row, target_date)>>]
    /\ PathUnchanged

\* the pre-filter evaluated once more on the same row and date, as the
\* fetch step does for its statistics
RunPrefilterAgain ==
    /\ paths.fast # << >>
    /\ paths.again = << >>
    /\ paths' = [paths EXCEPT
                   !.again = <<should_fetch_project_data(rows[1], target_date)>>]
    /\ PathUnchanged

\* process_production_project_data on the row
RunSingle ==
    /\ paths.single = << >>
    /\ \E o \in NetOutcomes :
         paths' = [paths EXCEPT !.single =
                     <<process_production_project_data(rows[1], start_row,
                          target_date, o)>>]
    /\ PathUnchanged

\* process_ga4_project_data on the row
RunGA4 ==
    /\ paths.ga4 = << >>
    /\ \E f \in {Ret("42"), Raise("GA4Error")} :
         paths' = [paths EXCEPT !.ga4 =
                     <<process_ga4_project_data(rows[1], start_row,
                          target_date, f)>>]
    /\ PathUnchanged

NextFilter ==
    \/ RunFast
    \/ RunPrefilterAgain
    \/ RunSingle
    \/ RunGA4

SpecFilter == InitFilter /\ [][NextFilter]_vars

\* ------------------------------------------------------------------------
\* The fetch step of the GA4 tool (src/main_oauth_ga4.py): get_gsheet_service,
\* read_sheet_range, then process_ga4_project_data row by row; the results
\* go to the session state when the loop has ended
\* ------------------------------------------------------------------------
InitGA4 ==
    /\ rows \in SeqsUpTo(HarvestRows, MaxRows)
    /\ start_row = 2
    /\ target_date = TargetDate
    /\ max_workers = 1
    /\ has_callback = FALSE
    /\ base_delay = GlobalBaseDelay
    /\ max_delay = GlobalMaxDelay
    /\ FreshLimiter
    /\ IdleHarvest
    /\ IdleRest
    /\ paths = << >>

GA4Unchanged ==
    UNCHANGED <<inputVars, valid_count, fetch_targets, fetch_results, progress,
                tasks, collected, limiterCfg, limiterVars, paths, clockVars,
                globalVars, writer>>

\* the button: get_gsheet_service(SCOPES) returns the service or raises
\* AuthenticationError, which the handler's except clause shows
GA4Start(creds) ==
    /\ hpc = "idle"
    /\ IF creds = "valid"
       THEN /\ hpc' = "rows"
            /\ UNCHANGED <<shown, auth_failures>>
       ELSE /\ hpc' = "failed"
            /\ shown' = "auth-error"
            /\ auth_failures' = Append(auth_failures, 0)
    /\ UNCHANGED <<next_i, results, session_results>>
    /\ GA4Unchanged

\* one turn of the loop over the rows
GA4Row(creds, report) ==
    /\ hpc = "rows"
    /\ next_i <= Len(rows)
    /\ LET i == start_row + next_i - 1
           r == process_ga4_project_data(rows[next_i], i, target_date,
                                         get_ga4_sessions(creds, report))
       IN  /\ results' = Append(results, r.result)
           /\ auth_failures' = IF r.fetch /\ creds \in AuthFailures
                                THEN Append(auth_failures, i)
                                ELSE auth_failures
    /\ next_i' = next_i + 1
    /\ UNCHANGED <<hpc, session_results, shown>>
    /\ GA4Unchanged

\* the loop has ended: the results are stored and shown
GA4Done ==
    /\ hpc = "rows"
    /\ next_i > Len(rows)
    /\ session_results' = results
    /\ shown' = "success"
    /\ hpc' = "done"
    /\ UNCHANGED <<next_i, results, auth_failures>>
    /\ GA4Unchanged

NextGA4 ==
    \/ \E creds \in CredStates : GA4Start(creds)
    \/ \E creds \in CredStates, report \in ReportOutcomes : GA4Row(creds, report)
    \/ GA4Done

SpecGA4 == InitGA4 /\ [][NextGA4]_vars

\* ------------------------------------------------------------------------
\* The shared limiter under concurrent threads: max_workers threads call
\* wait(), record_success() and record_error() in any order and at any
\* time, while the clock goes on.  A method is two steps: the thread
\* enters the with block (it takes _lock and reads), and it leaves it (it
\* writes and gives the lock back); between the two the thread can be
\* preempted, and inside wait() it sleeps.
\* ------------------------------------------------------------------------
\* the clock moves in steps of this many milliseconds
TickStep == 2 * GlobalBaseDelay

\* the counters of a limiter that earlier fetches have used: none; an
\* error and then 3 successes; 2 errors and then 4 successes
UsedCounters == {<<0, 0>>, <<1, 3>>, <<2, 4>>}

\* pc of a thread: "idle", "sleeping" (inside wait), "recording" (inside
\* record_success or record_error); op is the method it is in; snap is
\* what it read when it entered; based_on counts the returns from wait()
\* that had happened when it read last_request_time; delay is its
\* dynamic_delay
NewThread ==
    [pc |-> "idle", op |-> "", snap |-> 0, based_on |-> (-1), delay |-> 0,
     sleep0 |-> 0]

InitShared ==
    /\ rows = << >>
    /\ start_row = 2
    /\ target_date = TargetDate
    /\ max_workers \in 1..MaxWorkers
    /\ has_callback = FALSE
    /\ base_delay = GlobalBaseDelay
    /\ max_delay = GlobalMaxDelay
    /\ \E c \in UsedCounters : error_count = c[1] /\ success_count = c[2]
    /\ lock = 0
    /\ last_delay = 0
    /\ win = << >>
    /\ hpc = "idle"
    /\ next_i = 1
    /\ valid_count = 0
    /\ results = << >>
    /\ fetch_targets = << >>
    /\ fetch_results = << >>
    /\ progress = << >>
    /\ tasks = [t \in 1..max_workers |-> NewThread]
    /\ collected = << >>
    /\ NoFetchStep
    /\ elapsed = ElapsedCap
    /\ sleep_left = [t \in 1..Len(tasks) |-> 0]
    /\ dispatched = [n |-> 0, gap |-> ElapsedCap, delay |-> 0, slept |-> 0]
    /\ committed = <<Entry("start", error_count, success_count)>>
    /\ GlobalsMade
    /\ paths = << >>

SharedUnchanged ==
    UNCHANGED <<inputVars, harvestVars, collected, limiterCfg, win, paths,
                runVars, globalVars, writer>>

\* the calls of the limiter's methods begun so far
OpsBegun ==
    dispatched.n + (Len(committed) - 1)
    + Cardinality({t \in 1..Len(tasks) : tasks[t].pc # "idle"})

\* time passes; an elapsed time of max_delay or more is as good as any
\* longer one
Tick ==
    /\ elapsed' = IF elapsed + TickStep >= max_delay THEN ElapsedCap
                  ELSE elapsed + TickStep
    /\ sleep_left' = [t \in 1..Len(sleep_left) |->
                         Max(0, sleep_left[t] - TickStep)]
    /\ \/ elapsed < ElapsedCap
       \/ \E t \in 1..Len(sleep_left) : sleep_left[t] > 0
    /\ UNCHANGED <<tasks, limiterVars, dispatched, committed>>
    /\ SharedUnchanged

\* wait(): the thread has the lock, computes dynamic_delay and elapsed,
\* and goes to sleep for sleep_time
SharedWaitEnter(t) ==
    /\ tasks[t].pc = "idle"
    /\ OpsBegun < MaxOps
    /\ wait_enter(t)
    /\ LET d == dynamic_delay(base_delay, max_delay, error_count, success_count)
       IN  /\ sleep_left' = [sleep_left EXCEPT ![t] = sleep_time(d, elapsed)]
           /\ tasks' = [tasks EXCEPT ![t] =
                          [pc |-> "sleeping", op |-> "wait", snap |-> elapsed,
                           based_on |-> dispatched.n, delay |-> d,
                           sleep0 |-> sleep_time(d, elapsed)]]
    /\ UNCHANGED <<error_count, success_count, win, elapsed, dispatched,
                   committed>>
    /\ SharedUnchanged

\* wait(): the sleep is over; last_request_time = time.time(), and the
\* lock is given back
SharedWaitExit(t) ==
    /\ tasks[t].pc = "sleeping"
    /\ sleep_left[t] = 0
    /\ lock' = 0
    /\ dispatched' = [n |-> dispatched.n + 1, gap |-> elapsed,
                      delay |-> tasks[t].delay, slept |-> tasks[t].sleep0]
    /\ elapsed' = 0
    /\ tasks' = [tasks EXCEPT ![t] = NewThread]
    /\ UNCHANGED <<error_count, success_count, win, last_delay, sleep_left,
                   committed>>
    /\ SharedUnchanged

\* record_success() / record_error(): the thread has the lock and reads
\* the counter it is going to add 1 to
SharedRecordEnter(t, op) ==
    /\ tasks[t].pc = "idle"
    /\ OpsBegun < MaxOps
    /\ Acquire(t)
    /\ tasks' = [tasks EXCEPT ![t] =
                   [@ EXCEPT !.pc = "recording", !.op = op,
                             !.snap = IF op = "record_success"
                                      THEN success_count ELSE error_count]]
    /\ UNCHANGED <<error_count, success_count, win, last_delay, elapsed,
                   sleep_left, dispatched, committed>>
    /\ SharedUnchanged

\* record_success() / record_error(): the thread writes the counter, and
\* in record_success applies the decay; the lock is given back
SharedRecordExit(t) ==
    /\ tasks[t].pc = "recording"
    /\ lock' = 0
    /\ IF tasks[t].op = "record_success"
       THEN /\ success_count' = tasks[t].snap + 1
            /\ error_count' = ErrorCountAfterSuccess(error_count,
                                                     tasks[t].snap + 1)
       ELSE /\ error_count' = ErrorCountAfterError(tasks[t].snap)
            /\ success_count' = success_count
    /\ committed' = Append(committed,
                           Entry(tasks[t].op, error_count', success_count'))
    /\ tasks' = [tasks EXCEPT ![t] = NewThread]
    /\ UNCHANGED <<win, last_delay, elapsed, sleep_left, dispatched>>
    /\ SharedUnchanged

NextShared ==
    \/ Tick
    \/ \E t \in 1..Len(tasks) : SharedWaitEnter(t)
    \/ \E t \in 1..Len(tasks) : SharedWaitExit(t)
    \/ \E t \in 1..Len(tasks) :
          \E op \in {"record_success", "record_error"} : SharedRecordEnter(t, op)
    \/ \E t \in 1..Len(tasks) : SharedRecordExit(t)

SpecShared == InitShared /\ [][NextShared]_vars

\* ------------------------------------------------------------------------
\* The module globals in a process that has fetched nothing yet: the pool's
\* workers run get_campfire_data, whose first two statements are
\* get_global_session() and get_global_rate_limiter().  Neither function
\* takes a lock: the test `is None`, the construction with the assignment,
\* and the return (which reads the global again) are steps another thread
\* can come between.
\* ------------------------------------------------------------------------
\* pc of a worker: "idle", "session_none" / "session_set" (after the test
\* in get_global_session), "got_session", "limiter_none" / "limiter_set"
\* (after the test in get_global_rate_limiter), "fetching"; session and
\* limiter are the locals of get_campfire_data
NewWorker == [pc |-> "idle", session |-> 0, limiter |-> 0, calls |-> 0]

\* the calls of get_campfire_data begun so far
CallsBegun ==
    Cardinality({c \in (1..Len(tasks)) \X (1..MaxCalls) :
                    c[2] <= tasks[c[1]].calls})

InitGlobals ==
    /\ rows = << >>
    /\ start_row = 2
    /\ target_date = TargetDate
    /\ max_workers \in 1..MaxWorkers
    /\ has_callback = FALSE
    /\ base_delay = GlobalBaseDelay
    /\ max_delay = GlobalMaxDelay
    /\ FreshLimiter
    /\ hpc = "idle"
    /\ next_i = 1
    /\ valid_count = 0
    /\ results = << >>
    /\ fetch_targets = << >>
    /\ fetch_results = << >>
    /\ progress = << >>
    /\ tasks = [t \in 1..max_workers |-> NewWorker]
    /\ collected = << >>
    /\ NoFetchStep
    /\ FreshClock
    /\ global_limiter = 0
    /\ global_session = 0
    /\ limiters_made = 0
    /\ sessions_made = 0
    /\ paths = << >>

GlobalsUnchanged ==
    UNCHANGED <<inputVars, harvestVars, collected, limiterCfg, limiterVars,
                paths, runVars, clockVars, writer>>

\* get_campfire_data begins; get_global_session: if _global_session is None
SessionTest(t) ==
    /\ tasks[t].pc = "idle"
    /\ CallsBegun < MaxCalls
    /\ tasks' = [tasks EXCEPT ![t] =
                   [pc |-> IF global_session = 0 THEN "session_none"
                           ELSE "session_set",
                    session |-> 0, limiter |-> 0, calls |-> @.calls + 1]]
    /\ UNCHANGED globalVars
    /\ GlobalsUnchanged

\* _global_session = requests.Session()
SessionMake(t) ==
    /\ tasks[t].pc = "session_none"
    /\ sessions_made' = sessions_made + 1
    /\ global_session' = sessions_made + 1
    /\ tasks' = [tasks EXCEPT ![t].pc = "session_set"]
    /\ UNCHANGED <<global_limiter, limiters_made>>
    /\ GlobalsUnchanged

\* return _global_session
SessionReturn(t) ==
    /\ tasks[t].pc = "session_set"
    /\ tasks' = [tasks EXCEPT ![t].pc = "got_session",
                              ![t].session = global_session]
    /\ UNCHANGED globalVars
    /\ GlobalsUnchanged

\* get_global_rate_limiter: if _global_rate_limiter is None
LimiterTest(t) ==
    /\ tasks[t].pc = "got_session"
    /\ tasks' = [tasks EXCEPT ![t].pc = IF global_limiter = 0
                                        THEN "limiter_none" ELSE "limiter_set"]
    /\ UNCHANGED globalVars
    /\ GlobalsUnchanged

\* _global_rate_limiter = AdaptiveRateLimiter(base_delay=0.5, max_delay=3.0)
LimiterMake(t) ==
    /\ tasks[t].pc = "limiter_none"
    /\ limiters_made' = limiters_made + 1
    /\ global_limiter' = limiters_made + 1
    /\ tasks' = [tasks EXCEPT ![t].pc = "limiter_set"]
    /\ UNCHANGED <<global_session, sessions_made>>
    /\ GlobalsUnchanged

\* return _global_rate_limiter; the worker goes on to wait on and record
\* into the limiter it was given, and to request with its session
LimiterReturn(t) ==
    /\ tasks[t].pc = "limiter_set"
    /\ tasks' = [tasks EXCEPT ![t].pc = "fetching",
                              ![t].limiter = global_limiter]
    /\ UNCHANGED globalVars
    /\ GlobalsUnchanged

\* get_campfire_data is over; the worker is free for the next project
FetchOver(t) ==
    /\ tasks[t].pc = "fetching"
    /\ tasks' = [tasks EXCEPT ![t].pc = "idle"]
    /\ UNCHANGED globalVars
    /\ GlobalsUnchanged

NextGlobals ==
    \/ \E t \in 1..Len(tasks) : SessionTest(t)
    \/ \E t \in 1..Len(tasks) : SessionMake(t)
    \/ \E t \in 1..Len(tasks) : SessionReturn(t)
    \/ \E t \in 1..Len(tasks) : LimiterTest(t)
    \/ \E t \in 1..Len(tasks) : LimiterMake(t)
    \/ \E t \in 1..Len(tasks) : LimiterReturn(t)
    \/ \E t \in 1..Len(tasks) : FetchOver(t)

SpecGlobals == InitGlobals /\ [][NextGlobals]_vars

\* ------------------------------------------------------------------------
\* A healthy period: a limiter that has recorded errors and successes is
\* from now on called with wait() and record_success() only
\* ------------------------------------------------------------------------
\* the successes it takes at most to work MaxDebt errors off, and 5 more
HealthyCap == 5 * (MaxDebt + 2) - 1

\* error_count errors after success_count successes: any pair of counts
\* is reached by recording the successes first and the errors after them
InitHealthy ==
    /\ NoRun
    /\ \/ base_delay = GlobalBaseDelay /\ max_delay = GlobalMaxDelay
       \/ base_delay = DefaultBaseDelay /\ max_delay = DefaultMaxDelay
    /\ error_count \in 0..MaxDebt
    /\ success_count \in 0..4
    /\ lock = 0
    /\ last_delay = 0
    /\ win = << >>
    /\ IdleHarvest
    /\ IdleRest
    /\ paths = << >>

HealthySuccess ==
    /\ lock = 0
    /\ success_count < HealthyCap
    /\ record_success
    /\ UNCHANGED <<lock, last_delay>>
    /\ UNCHANGED <<inputVars, harvestVars, tasks, collected, limiterCfg, restVars, paths>>

NextHealthy ==
    \/ LimiterWaitEnter
    \/ LimiterWaitExit
    \/ HealthySuccess

\* the sleep inside wait() ends, and record_success() goes on being called
SpecHealthy ==
    /\ InitHealthy
    /\ [][NextHealthy]_vars
    /\ WF_vars(LimiterWaitExit)
    /\ WF_vars(LimiterWaitEnter)
    /\ SF_vars(HealthySuccess)

\* ------------------------------------------------------------------------
\* The two modes of the production tool's fetch step on the same sheet:
\* safe mode (process_production_project_data row by row), then fast mode
\* (process_production_project_data_fast), every request for a project
\* coming to the same outcome in both.  paths.outcome is the outcome per
\* project, paths.safe the results list of safe mode.
\* ------------------------------------------------------------------------
Projects == {"p1", "p2"}

OutcomeOf(pj_id) ==
    IF pj_id \in Projects THEN paths.outcome[pj_id] ELSE "ok"

InitModes ==
    /\ rows \in {rs \in SeqsUpTo(HarvestRows, MaxRows) :
                    EligibleCount(rs, TargetDate) <= MaxTargets}
    /\ start_row = 2
    /\ target_date = TargetDate
    /\ max_workers \in 1..MaxWorkers
    /\ has_callback = FALSE
    /\ base_delay = GlobalBaseDelay
    /\ max_delay = GlobalMaxDelay
    /\ FreshLimiter
    /\ IdleHarvest
    /\ IdleRest
    /\ paths \in {[outcome |-> f, safe |-> << >>] : f \in [Projects -> NetOutcomes]}

SafeDone == Len(paths.safe) = Len(rows)

\* safe mode, one turn of its loop: process_production_project_data on the
\* next row; a row that is fetched goes through wait() and record_success()
\* or record_error() of the limiter
SafeRow ==
    /\ hpc = "idle"
    /\ ~SafeDone
    /\ lock = 0
    /\ LET k == Len(paths.safe) + 1
           o == OutcomeOf(CellOr(rows[k], 0, "").value)
           r == process_production_project_data(rows[k], start_row + k - 1,
                                                target_date, o)
       IN  /\ paths' = [paths EXCEPT !.safe = Append(@, r.result)]
           /\ IF r.fetch
              THEN /\ last_delay' = dynamic_delay(base_delay, max_delay,
                                                  error_count, success_count)
                   /\ IF RecordFor(o) = "record_error"
                      THEN record_error ELSE record_success
              ELSE UNCHANGED <<last_delay, error_count, success_count, win>>
    /\ UNCHANGED <<lock, inputVars, harvestVars, tasks, collected, limiterCfg,
                   restVars>>

\* fast mode is started when safe mode has ended
ModesStartFast ==
    /\ SafeDone
    /\ StartFast

\* the request of task t comes to the outcome of its project
ModesWorkerFinish(t) ==
    /\ WorkerFinish(t)
    /\ tasks'[t].outcome = OutcomeOf(tasks[t].pj_id)

NextModes ==
    \/ SafeRow
    \/ ModesStartFast
    \/ Phase1Step
    \/ Phase1Done
    \/ \E t \in 1..Len(tasks) : WorkerStart(t)
    \/ \E t \in 1..Len(tasks) : WorkerWaitEnter(t)
    \/ \E t \in 1..Len(tasks) : WorkerWaitExit(t)
    \/ \E t \in 1..Len(tasks) : ModesWorkerFinish(t)
    \/ BatchReturn
    \/ Finish

SpecModes == InitModes /\ [][NextModes]_vars

\* ------------------------------------------------------------------------
\* The write step of the production tool and of the GA4 tool: the stored
\* results are gone through in order, the cells of the rows with the ok
\* status are buffered in batch_data and sent with write_sheet_batch
\* ------------------------------------------------------------------------
\* config.BATCH_SIZE
BATCH_SIZE == 100

Tools == {"production", "ga4"}

\* the lengths of the stored results: around 0, BATCH_SIZE and 2 * BATCH_SIZE
StoredLengths ==
    (0..MaxOver)
    \cup ((BATCH_SIZE - MaxOver)..(BATCH_SIZE + MaxOver))
    \cup ((2 * BATCH_SIZE)..(2 * BATCH_SIZE + MaxOver))

\* which rows of the stored results are ok: all, all but every third (a
\* failed fetch), none (all outside the window)
StoredKinds == {"all_ok", "some_failed", "none_ok"}

StoredStatus(kind, k) ==
    IF kind = "all_ok" THEN ST_ok
    ELSE IF kind = "none_ok" THEN ST_not_in_window
    ELSE IF k % 3 = 0 THEN ST_fetch_error ELSE ST_ok

\* the results a fetch step stores: one tuple per row, rows ascending
StoredResults(tool, n, kind) ==
    [k \in 1..n |->
        LET st == StoredStatus(kind, k) IN
        IF tool = "production"
        THEN Row5(k + 1, "p1", IF st = ST_ok THEN PageAmount("p1") ELSE PLACEHOLDER,
                  IF st = ST_ok THEN PageCount("p1") ELSE PLACEHOLDER, st)
        ELSE Row4(k + 1, "p1", IF st = ST_ok THEN "42" ELSE PLACEHOLDER, st)]

\* the entries appended to batch_data for one ok row
Cells(tool, r) ==
    IF tool = "production"
    THEN <<[range |-> <<"N", r.row>>, value |-> r.amount],
           [range |-> <<"P", r.row>>, value |-> r.count]>>
    ELSE <<[range |-> <<"X", r.row>>, value |-> r.sessions]>>

\* BATCH_SIZE * 2 in the production tool, BATCH_SIZE in the GA4 tool
BatchLimit(tool) == IF tool = "production" THEN BATCH_SIZE * 2 ELSE BATCH_SIZE

\* a loop that never sends
BatchFull_never(n, limit) == FALSE

\* if len(batch_data) >= limit
BatchFull(n, limit) == n >= limit

InitWrite ==
    /\ NoRun
    /\ base_delay = GlobalBaseDelay
    /\ max_delay = GlobalMaxDelay
    /\ FreshLimiter
    /\ IdleHarvest
    /\ FreshClock
    /\ GlobalsMade
    /\ paths = << >>
    /\ auth_failures = << >>
    /\ \E tool \in Tools, n \in StoredLengths, kind \in StoredKinds :
          /\ session_results = StoredResults(tool, n, kind)
          /\ writer = [IdleWriter EXCEPT !.tool = tool]
    /\ shown = IF session_results = << >> THEN "" ELSE "success"

WriteUnchanged ==
    UNCHANGED <<inputVars, harvestVars, tasks, collected, limiterCfg,
                limiterVars, paths, session_results, auth_failures, clockVars,
                globalVars>>

\* the write button (shown when results are stored): get_gsheet_service
\* returns the service or raises AuthenticationError
WriteStart(creds) ==
    /\ writer.pc = "idle"
    /\ session_results # << >>
    /\ IF creds = "valid"
       THEN /\ writer' = [writer EXCEPT !.pc = "loop"]
            /\ shown' = shown
       ELSE /\ writer' = [writer EXCEPT !.pc = "failed"]
            /\ shown' = "auth-error"
    /\ WriteUnchanged

\* one turn of the loop; sends says whether write_sheet_batch, if it is
\* called, succeeds or raises SheetsError (which ends the step)
WriteRow(sends) ==
    /\ writer.pc = "loop"
    /\ writer.idx < Len(session_results)
    /\ LET r == session_results[writer.idx + 1]
           batch == writer.batch_data \o Cells(writer.tool, r)
       IN  IF r.status # ST_ok
           THEN /\ writer' = [writer EXCEPT
                                !.idx = @ + 1,
                                !.write_log = Append(@, <<r.row, "skip">>)]
                /\ shown' = shown
           ELSE IF ~BatchFull(Len(batch), BatchLimit(writer.tool))
           THEN /\ writer' = [writer EXCEPT
                                !.idx = @ + 1,
                                !.batch_data = batch,
                                !.write_log = Append(@, <<r.row, "ready">>)]
                /\ shown' = shown
           ELSE IF sends
           THEN /\ writer' = [writer EXCEPT
                                !.idx = @ + 1,
                                !.batch_data = << >>,
                                !.sent = Append(@, batch),
                                !.write_log = Append(@, <<r.row, "ready">>)]
                /\ shown' = shown
           ELSE /\ writer' = [writer EXCEPT
                                !.pc = "failed",
                                !.batch_data = batch,
                                !.write_log = Append(@, <<r.row, "ready">>)]
                /\ shown' = "sheets-error"
    /\ WriteUnchanged

\* after the loop: what is left in batch_data is sent
WriteFlush(sends) ==
    /\ writer.pc = "loop"
    /\ writer.idx = Len(session_results)
    /\ IF writer.batch_data = << >>
       THEN /\ writer' = [writer EXCEPT !.pc = "done"]
            /\ shown' = "written"
       ELSE IF sends
       THEN /\ writer' = [writer EXCEPT !.pc = "done", !.batch_data = << >>,
                                        !.sent = Append(@, writer.batch_data)]
            /\ shown' = "written"
       ELSE /\ writer' = [writer EXCEPT !.pc = "failed"]
            /\ shown' = "sheets-error"
    /\ WriteUnchanged

NextWrite ==
    \/ \E creds \in {"valid", "no_file"} : WriteStart(creds)
    \/ \E sends \in BOOLEAN : WriteRow(sends)
    \/ \E sends \in BOOLEAN : WriteFlush(sends)

SpecWrite == InitWrite /\ [][NextWrite]_vars

\* ------------------------------------------------------------------------
\* The two-step amount tool (src/machi-ya_chokkin_report.py): the fetch step
\* reads cell A of every row of start_row..end_row and fetches the amount;
\* the write step writes cell D of the rows it does not skip, one
\* write_sheet_cell per row.  rows[k] is what reading A{row} gives: << >>
\* for an empty cell, <<id>> otherwise.
\* ------------------------------------------------------------------------
\* (row, pj_id, amount)
Row3(row, pj_id, amount) == [row |-> row, pj_id |-> pj_id, amount |-> amount]

AmountCells == {<< >>, <<"p1">>, <<"p2">>}

\* what the request of get_campfire_data comes to, as far as the amount
\* is concerned
AmountOutcomes == {"ok", "no_amount", "net_err"}

\* get_campfire_amount: the amount, or the ScrapingError raised again
get_campfire_amount(pj_id, outcome) ==
    LET r == FetchReturn(pj_id, outcome) IN
    IF r.raised # "" THEN r ELSE Ret(r.value.amount)

\* process_project_data; reads says whether read_sheet_range returns or
\* raises SheetsError.  fetch says whether get_campfire_amount was called.
process_project_data(cell, row, reads, outcome) ==
    IF ~reads
    THEN [fetch |-> FALSE, result |-> Row3(row, MSG_no_id, ErrorStatus("SheetsError"))]
    ELSE IF cell = << >>
    THEN [fetch |-> FALSE, result |-> Row3(row, MSG_no_id, MSG_skip)]
    ELSE LET a == get_campfire_amount(cell[1], outcome) IN
         IF a.raised # ""
         THEN [fetch |-> TRUE, result |-> Row3(row, MSG_no_id, ErrorStatus(a.raised))]
         ELSE [fetch |-> TRUE, result |-> Row3(row, cell[1], a.value)]

\* a write step that looks at the amount only
WriteSkips_amount_only(r) ==
    r.amount = MSG_fetch_failed \/ ContainsError(r.amount)

\* the write step's test for skipping a stored row
WriteSkips(r) ==
    \/ r.amount = MSG_fetch_failed
    \/ ContainsError(r.amount)
    \/ r.pj_id = MSG_no_id

InitAmount ==
    /\ rows \in SeqsUpTo(AmountCells, MaxRows + 1)
    /\ start_row = 2
    /\ target_date = TargetDate
    /\ max_workers = 1
    /\ has_callback = FALSE
    /\ base_delay = GlobalBaseDelay
    /\ max_delay = GlobalMaxDelay
    /\ FreshLimiter
    /\ IdleHarvest
    /\ IdleRest
    /\ paths = << >>

AmountUnchanged ==
    UNCHANGED <<inputVars, valid_count, fetch_targets, fetch_results, progress,
                tasks, collected, limiterCfg, lock, paths, auth_failures,
                clockVars, globalVars>>

\* the fetch button: get_gsheet_service returns or raises
AmountStart(creds) ==
    /\ hpc = "idle"
    /\ IF creds = "valid"
       THEN hpc' = "rows" /\ shown' = shown
       ELSE hpc' = "failed" /\ shown' = "auth-error"
    /\ UNCHANGED <<next_i, results, session_results, writer, last_delay,
                   error_count, success_count, win>>
    /\ AmountUnchanged

\* one turn of the fetch loop; a row that is fetched goes through wait()
\* and record_success() or record_error() of the limiter
AmountRow(reads, o) ==
    /\ hpc = "rows"
    /\ next_i <= Len(rows)
    /\ LET r == process_project_data(rows[next_i], start_row + next_i - 1,
                                     reads, o)
       IN  /\ results' = Append(results, r.result)
           /\ IF r.fetch
              THEN /\ last_delay' = dynamic_delay(base_delay, max_delay,
                                                  error_count, success_count)
                   /\ IF RecordFor(o) = "record_error"
                      THEN record_error ELSE record_success
              ELSE UNCHANGED <<last_delay, error_count, success_count, win>>
    /\ next_i' = next_i + 1
    /\ UNCHANGED <<hpc, shown, session_results, writer>>
    /\ AmountUnchanged

\* the loop has ended: the results are stored and shown
AmountDone ==
    /\ hpc = "rows"
    /\ next_i > Len(rows)
    /\ session_results' = results
    /\ shown' = "success"
    /\ hpc' = "done"
    /\ UNCHANGED <<next_i, results, writer, last_delay, error_count,
                   success_count, win>>
    /\ AmountUnchanged

\* the write button (shown when results are stored)
AmountWriteStart(creds) ==
    /\ hpc = "done"
    /\ writer.pc = "idle"
    /\ session_results # << >>
    /\ IF creds = "valid"
       THEN /\ writer' = [writer EXCEPT !.pc = "loop", !.tool = "amount"]
            /\ shown' = shown
       ELSE /\ writer' = [writer EXCEPT !.pc = "failed", !.tool = "amount"]
            /\ shown' = "auth-error"
    /\ UNCHANGED <<hpc, next_i, results, session_results, last_delay,
                   error_count, success_count, win>>
    /\ AmountUnchanged

\* one turn of the write loop; sends says whether write_sheet_cell, if it
\* is called, succeeds or raises SheetsError
AmountWriteRow(sends) ==
    /\ writer.pc = "loop"
    /\ writer.idx < Len(session_results)
    /\ LET r == session_results[writer.idx + 1] IN
       IF WriteSkips(r)
       THEN writer' = [writer EXCEPT
                         !.idx = @ + 1,
                         !.write_log = Append(@, <<r.row, "skip">>)]
       ELSE IF sends
       THEN writer' = [writer EXCEPT
                         !.idx = @ + 1,
                         !.sent = Append(@, [range |-> <<"D", r.row>>,
                                             value |-> r.amount]),
                         !.write_log = Append(@, <<r.row, "written">>)]
       ELSE writer' = [writer EXCEPT
                         !.idx = @ + 1,
                         !.write_log = Append(@, <<r.row, "write-error">>)]
    /\ UNCHANGED <<hpc, shown, next_i, results, session_results, last_delay,
                   error_count, success_count, win>>
    /\ AmountUnchanged

\* the write loop has ended
AmountWriteDone ==
    /\ writer.pc = "loop"
    /\ writer.idx = Len(session_results)
    /\ writer' = [writer EXCEPT !.pc = "done"]
    /\ shown' = "written"
    /\ UNCHANGED <<hpc, next_i, results, session_results, last_delay,
                   error_count, success_count, win>>
    /\ AmountUnchanged

NextAmount ==
    \/ \E creds \in {"valid", "no_file"} : AmountStart(creds)
    \/ \E reads \in BOOLEAN, o \in AmountOutcomes : AmountRow(reads, o)
    \/ AmountDone
    \/ \E creds \in {"valid", "no_file"} : AmountWriteStart(creds)
    \/ \E sends \in BOOLEAN : AmountWriteRow(sends)
    \/ AmountWriteDone

SpecAmount == InitAmount /\ [][NextAmount]_vars

\* ========================================================================
\* Properties
\* ========================================================================
RowIndex(k) == start_row + k - 1

\* the project id cell of the row is empty or absent
IdAbsent(row_data) == Len(row_data) = 0 \/ row_data[1] = ""

\* the end-date cell of the row is empty or absent
EndDateAbsent(row_data) == Len(row_data) < 6 \/ row_data[6] = << >>

ResultsFor(i) == {k \in 1..Len(results) : results[k].row = i}

TargetsFor(i) == {k \in 1..Len(fetch_targets) : fetch_targets[k][1] = i}

\* C1: when the fast harvester has returned, its list holds each row index
\* start_row .. start_row + len(rows) - 1 exactly once, in ascending order,
\* whatever the completion order of the fetches was.
C1_RowsOnceSorted ==
    hpc = "done" =>
        /\ Len(results) = Len(rows)
        /\ \A k \in 1..Len(results) : results[k].row = RowIndex(k)

\* a harvest has returned in which a fetched row stands before a
\* pre-filtered one (the merge appended it behind) and two fetches
\* completed in the reverse of their submission order
C1_Witness ==
    /\ hpc = "done"
    /\ Len(rows) = MaxRows
    /\ \E a, b \in 1..Len(rows) :
          /\ a < b
          /\ TargetsFor(RowIndex(a)) # {}
          /\ TargetsFor(RowIndex(b)) = {}
    /\ C1_RowsOnceSorted

C1_WitnessReversed ==
    /\ hpc = "done"
    /\ Len(fetch_targets) = 2
    /\ fetch_targets[1][2] # fetch_targets[2][2]
    /\ collected[1][1] = fetch_targets[2][2]

\* the task of the worklist entry k failed (the fetcher raised)
TaskFailed(k) == tasks[k].outcome \in {"net_err", "other_err", "task_err"}

\* the fetcher failed for a fixed subset of the project ids: two fetches
\* of the same id either both failed or both did not
FixedFailingSubset ==
    \A a, b \in 1..Len(tasks) :
        tasks[a].pj_id = tasks[b].pj_id => (TaskFailed(a) <=> TaskFailed(b))

\* C2: after a harvest in which the fetcher failed for a fixed subset of
\* the project ids, exactly the eligible rows of that subset have the
\* fetch-error status, every other eligible row has ok, and the output has
\* one entry per eligible row plus one per pre-filtered row.
C2_FailingSubsetTagged ==
    (hpc = "done" /\ FixedFailingSubset) =>
        /\ Len(results) = Len(fetch_targets) + (Len(rows) - Len(fetch_targets))
        /\ Len(tasks) = Len(fetch_targets)
        /\ \A k \in 1..Len(fetch_targets) :
             \A j \in ResultsFor(fetch_targets[k][1]) :
                results[j].status =
                    IF TaskFailed(k) THEN ST_fetch_error ELSE ST_ok

\* C3: a row whose id cell is empty or absent is never put on the
\* worklist, so no task (no wait, no request) exists for it; once phase 1
\* has passed it, it has one result, with the skip status and the no-id
\* text; with nothing but such rows the limiter is never touched.
C3_NoIdSkippedNoFetch ==
    /\ \A k \in 1..Len(rows) :
          IdAbsent(rows[k]) =>
             /\ TargetsFor(RowIndex(k)) = {}
             /\ (hpc # "idle" /\ k < next_i) =>
                   /\ Cardinality(ResultsFor(RowIndex(k))) = 1
                   /\ \A j \in ResultsFor(RowIndex(k)) :
                         /\ results[j].status = MSG_skip
                         /\ results[j].pj_id = MSG_no_id
                         /\ results[j].amount = PLACEHOLDER
                         /\ results[j].count = PLACEHOLDER
    /\ Len(tasks) \in {0, Len(fetch_targets)}
    /\ \A t \in 1..Len(tasks) :
          /\ tasks[t].pj_id = fetch_targets[t][2]
          /\ tasks[t].pj_id # ""
    /\ (\A k \in 1..Len(rows) : IdAbsent(rows[k])) =>
          (tasks = << >> /\ win = << >> /\ last_delay = 0 /\ lock = 0)

\* a harvest has returned whose rows include one with no id but an
\* end-date inside the window, next to a row that was fetched
C3_Witness ==
    /\ hpc = "done"
    /\ \E k \in 1..Len(rows) :
          /\ rows[k] = RowOf("", D_0601)
          /\ results[k].status = MSG_skip
    /\ Len(tasks) = 1
    /\ tasks[1].pc = "returned"

\* the tag the four checks give in their fixed order: id present, end-date
\* present, end-date parses, end-date >= target date; "fetch" when all pass
FirstFailingCheck(row_data, date) ==
    IF IdAbsent(row_data) THEN MSG_skip
    ELSE IF EndDateAbsent(row_data) THEN ST_no_end_date
    ELSE IF strptime(row_data[6]) = ValueError THEN MSG_date_parse_error
    ELSE IF ~DateGE(strptime(row_data[6]), date) THEN ST_not_in_window
    ELSE "fetch"

\* C4: phase 1 puts the row on the worklist iff the four checks pass in
\* their order, and otherwise gives it the skip tag of the first failing
\* check (2024/13/45 gives the date-parse tag and no fetch); the pre-filter
\* evaluated again on the same row and date decides the same.
C4_FirstFailingCheckWins ==
    LET row == rows[1]
        want == FirstFailingCheck(row, target_date)
    IN
    /\ paths.fast # << >> =>
          LET r == paths.fast[1] IN
          /\ r.kind = (IF want = "fetch" THEN "target" ELSE "result")
          /\ r.kind = "result" =>
                /\ r.result.status = want
                /\ r.result.amount = PLACEHOLDER
                /\ r.result.count = PLACEHOLDER
          /\ (Len(row) = 6 /\ row[1] # "" /\ row[6] = D_1345) =>
                (r.kind = "result" /\ r.result.status = MSG_date_parse_error)
    /\ paths.again # << >> =>
          /\ paths.again[1].raised = ""
          /\ paths.again[1].value = (paths.fast[1].kind = "target")

\* both evaluations are done on a row whose date does not parse, and on a
\* row that passes all four checks
C4_Witness ==
    /\ paths.fast # << >> /\ paths.again # << >>
    /\ rows[1] = RowOf("p1", D_1345)
    /\ paths.fast[1].result.status = MSG_date_parse_error
    /\ ~paths.again[1].value

C4_WitnessFetch ==
    /\ paths.fast # << >> /\ paths.again # << >>
    /\ paths.fast[1].kind = "target"
    /\ paths.again[1].value

\* the end-date cells that write the target date itself, and the one that
\* writes the day before it
SameDay(date) ==
    IF date = <<2024, 6, 1>> THEN {D_0601, D_short}
    ELSE IF date = <<2024, 6, 2>> THEN {D_0602}
    ELSE {D_0531}

DayBefore(date) ==
    IF date = <<2024, 6, 1>> THEN {D_0531}
    ELSE IF date = <<2024, 6, 2>> THEN {D_0601, D_short}
    ELSE {}

\* C5: the window check includes the target date: a row ending on the
\* target date is fetched and a row ending the day before is skipped as
\* not in the window, in the pre-filter and in the single-row path (target
\* 2024/06/01: 2024/05/31 is skipped, 2024/06/01 is fetched).
C5_WindowInclusive ==
    LET row == rows[1] IN
    (Len(row) = 6 /\ row[1] # "") =>
       /\ (paths.fast # << >> /\ row[6] \in SameDay(target_date)) =>
             paths.fast[1].kind = "target"
       /\ (paths.fast # << >> /\ row[6] \in DayBefore(target_date)) =>
             /\ paths.fast[1].kind = "result"
             /\ paths.fast[1].result.status = ST_not_in_window
       /\ (paths.single # << >> /\ row[6] \in SameDay(target_date)) =>
             paths.single[1].fetch
       /\ (paths.single # << >> /\ row[6] \in DayBefore(target_date)) =>
             /\ ~paths.single[1].fetch
             /\ paths.single[1].result.status = ST_not_in_window

C5_Witness ==
    /\ target_date = <<2024, 6, 1>>
    /\ rows[1] = RowOf("p1", D_0601)
    /\ paths.fast # << >> /\ paths.fast[1].kind = "target"
    /\ paths.single # << >> /\ paths.single[1].fetch

C5_WitnessBefore ==
    /\ target_date = <<2024, 6, 1>>
    /\ rows[1] = RowOf("p1", D_0531)
    /\ paths.fast # << >> /\ paths.fast[1].result.status = ST_not_in_window
    /\ paths.single # << >> /\ paths.single[1].result.status = ST_not_in_window

\* the latest record_success / record_error call
LastRecord == win[Len(win)]

\* C6: with no success recorded, from the 10th consecutive record_error()
\* on, the delay wait() computes is max_delay, and it stays there while
\* errors go on; record_error() adds exactly 1 to error_count, uncapped.
C6_ErrorsClampDelay ==
    /\ (lock # 0 /\ success_count = 0 /\ error_count >= 10) =>
          last_delay = max_delay
    /\ (win # << >> /\ LastRecord.op = "record_error") =>
          /\ error_count = LastRecord.errors + 1
          /\ success_count = LastRecord.successes

\* wait() runs after 10 errors and no success, and again after more errors
C6_Witness ==
    /\ lock # 0
    /\ success_count = 0
    /\ error_count = 10
    /\ last_delay = max_delay

C6_WitnessSustained ==
    /\ lock # 0
    /\ success_count = 0
    /\ error_count = MaxErrors
    /\ last_delay = max_delay
    /\ max_delay = DefaultMaxDelay

\* the latest five records are all record_success
FiveSuccesses ==
    /\ Len(win) >= 5
    /\ \A k \in (Len(win) - 4)..Len(win) : win[k].op = "record_success"

\* C7: record_success() adds 1 to success_count and takes exactly 1 off
\* error_count when the new success_count is a multiple of 5 and
\* error_count > 0, and leaves it alone otherwise; error_count is never
\* negative; 5 record_success() calls in a row on a limiter with
\* error_count > 0 take exactly 1 off, whatever success_count was.
C7_SuccessDecay ==
    /\ error_count >= 0
    /\ (win # << >> /\ LastRecord.op = "record_success") =>
          /\ success_count = LastRecord.successes + 1
          /\ error_count =
                IF success_count % 5 = 0 /\ LastRecord.errors > 0
                THEN LastRecord.errors - 1
                ELSE LastRecord.errors
    /\ (FiveSuccesses /\ win[Len(win) - 4].errors > 0) =>
          error_count = win[Len(win) - 4].errors - 1

\* five successes in a row, begun at a success_count that is no multiple
\* of 5, on a limiter with errors
C7_Witness ==
    /\ FiveSuccesses
    /\ win[Len(win) - 4].errors = 3
    /\ win[Len(win) - 4].successes % 5 = 2
    /\ error_count = 2

\* the row with empty cells written out up to the full width
Padded(row_data) ==
    [k \in 1..6 |-> IF k <= Len(row_data) THEN row_data[k]
                    ELSE IF k = 6 THEN << >> ELSE ""]

\* the tag of a short row: no id when the id cell is empty or absent, and
\* no end-date otherwise
ShortRowTag(row_data) == IF IdAbsent(row_data) THEN MSG_skip ELSE ST_no_end_date

\* C8: a row of fewer than 6 cells is read as if the missing cells were
\* empty, and nothing is raised: a row of no cells is skipped for having no
\* id, a row with an id and fewer than 6 cells for having no end-date, in
\* the fast path, the single-row path and the GA4 path alike.
C8_RaggedRows ==
    LET row == rows[1] IN
    /\ paths.fast # << >> =>
          /\ paths.fast[1].kind # "raise"
          /\ paths.fast[1] = Phase1Row(Padded(row), start_row, target_date)
          /\ Len(row) < 6 =>
                /\ paths.fast[1].kind = "result"
                /\ paths.fast[1].result.status = ShortRowTag(row)
    /\ paths.again # << >> => paths.again[1].raised = ""
    /\ paths.single # << >> =>
          /\ ~ContainsError(paths.single[1].result.status)
                \/ paths.single[1].fetch
          /\ Len(row) < 6 =>
                /\ ~paths.single[1].fetch
                /\ paths.single[1].result.status = ShortRowTag(row)
    /\ paths.ga4 # << >> =>
          /\ ~ContainsError(paths.ga4[1].result.status)
                \/ paths.ga4[1].fetch
          /\ Len(row) < 6 =>
                /\ ~paths.ga4[1].fetch
                /\ paths.ga4[1].result.status = ShortRowTag(row)

\* the three paths have run on a row of five cells with an id
C8_Witness ==
    /\ Len(rows[1]) = 5
    /\ rows[1][1] = "p1"
    /\ paths.fast # << >> /\ paths.fast[1].result.status = ST_no_end_date
    /\ paths.single # << >> /\ paths.single[1].result.status = ST_no_end_date
    /\ paths.ga4 # << >> /\ paths.ga4[1].result.status = ST_no_end_date

C8_WitnessEmpty ==
    /\ rows[1] = << >>
    /\ paths.fast # << >> /\ paths.fast[1].result.status = MSG_skip
    /\ paths.single # << >> /\ paths.single[1].result.status = MSG_skip
    /\ paths.ga4 # << >> /\ paths.ga4[1].result.status = MSG_skip

C9_WitnessNoWorklist ==
    /\ has_callback
    /\ hpc = "done"
    /\ Len(rows) > 0
    /\ fetch_targets = << >>
    /\ progress = <<200, 900, 1000>>

\* the calls of the limiter a call of get_campfire_data makes, with the
\* request, in order, when rate limiting is on
LimitedLog(outcome) == <<"wait", "request", RecordFor(outcome)>>

IsPrefix(p, q) == Len(p) <= Len(q) /\ p = SubSeq(q, 1, Len(p))

ReturnedLimited == {t \in 1..Len(tasks) :
                      tasks[t].pc = "returned" /\ tasks[t].use_rate_limit}

\* C10 as claimed: every call of get_campfire_data that has returned,
\* whatever its use_rate_limit, called wait() before its request and
\* exactly one of record_success() / record_error() after it.
C10_AlwaysLimited ==
    \A t \in 1..Len(tasks) :
        tasks[t].pc = "returned" => tasks[t].log = LimitedLog(tasks[t].outcome)

\* C10 as amended: a call with use_rate_limit on (the default) calls
\* wait() before its request and exactly one of record_success() /
\* record_error() after it, on every path, and the limiter has one record
\* per such call; a call with use_rate_limit off calls no method of the
\* limiter.
C10_LimitedWhenFlagOn ==
    /\ \A t \in 1..Len(tasks) :
          IF tasks[t].use_rate_limit
          THEN /\ tasks[t].pc = "returned" =>
                     tasks[t].log = LimitedLog(tasks[t].outcome)
               /\ tasks[t].pc = "request" => tasks[t].log = <<"wait", "request">>
               /\ tasks[t].pc \in {"called", "sleeping"} => tasks[t].log = << >>
          ELSE /\ IsPrefix(tasks[t].log, <<"request">>)
               /\ tasks[t].pc \in {"request", "returned"} =>
                     tasks[t].log = <<"request">>
    /\ Len(win) = Min(WinLen, Cardinality(ReturnedLimited))
    /\ success_count =
          Cardinality({t \in ReturnedLimited :
                          RecordFor(tasks[t].outcome) = "record_success"})

\* a limited call that failed and an unlimited call have both returned
C10_Witness ==
    \E a, b \in 1..Len(tasks) :
        /\ tasks[a].pc = "returned" /\ tasks[a].use_rate_limit
        /\ tasks[a].outcome = "other_err"
        /\ tasks[a].log = <<"wait", "request", "record_error">>
        /\ tasks[b].pc = "returned" /\ ~tasks[b].use_rate_limit
        /\ tasks[b].log = <<"request">>

\* the request outcomes that are failures of the fetch
FetchFailures == {"net_err", "other_err"}

\* the record_error entries of a call's log
ErrorRecords(t) ==
    {k \in 1..Len(tasks[t].log) : tasks[t].log[k] = "record_error"}

MissingField == {"no_amount", "no_count"}

\* C12: a fetch whose page lacks the amount or the backer count does not
\* fail: get_campfire_data raises nothing, gives the unavailable text for
\* the missing field and the page's value for the other, and records a
\* success; the harvester gives the row no error status.
C12_MissingFieldNotFailure ==
    \A k \in 1..Len(tasks) :
        (tasks[k].pc = "returned" /\ tasks[k].outcome \in MissingField) =>
            /\ tasks[k].raised = ""
            /\ tasks[k].log = <<"wait", "request", "record_success">>
            /\ LET r == FetchReturn(tasks[k].pj_id, tasks[k].outcome).value IN
               /\ (tasks[k].outcome = "no_amount") <=> (r.amount = MSG_fetch_failed)
               /\ (tasks[k].outcome = "no_count") <=> (r.count = MSG_fetch_failed)
            /\ hpc = "done" =>
                  \A j \in ResultsFor(fetch_targets[k][1]) :
                      results[j].status = ST_ok

\* C13: when the harvester has returned, a row whose task raised an
\* unexpected exception (no ScrapingError) has an error status of its own,
\* distinct from the fetch-error status; the exception did not leave the
\* harvester and every row has its result.
C13_UnexpectedErrorDistinct ==
    hpc = "done" =>
        /\ Len(results) = Len(rows)
        /\ \A k \in 1..Len(tasks) :
              tasks[k].outcome = "task_err" =>
                 \A j \in ResultsFor(fetch_targets[k][1]) :
                    /\ results[j].status # ST_ok
                    /\ results[j].status # ST_fetch_error

\* C14: once an authentication failure has occurred in a run of the GA4
\* fetch step, be it in get_gsheet_service or inside the fetch of a row, the
\* run has stopped with the authentication error shown: no row has a
\* result for it, no later row is processed and nothing is stored in the
\* session state.
C14_AuthFailureStopsRun ==
    auth_failures # << >> =>
        /\ hpc = "failed"
        /\ shown = "auth-error"
        /\ session_results = << >>
        /\ \A k \in 1..Len(results) :
              /\ results[k].row < auth_failures[1]
              /\ ~ContainsError(results[k].status)

\* C15: cancellation is cooperative: a fetch that was dispatched to a
\* worker is never cut off, it runs to completion whatever the operator
\* does; and once the run has been cancelled every task that was started
\* has returned and no task is started any more.
C15_CooperativeCancel ==
    /\ \A t \in 1..Len(tasks) : tasks[t].pc # "aborted"
    /\ hpc = "exited" => Running = {}

\* C16: the number of fetch tasks that are executing at the same time (a
\* worker is inside get_campfire_data: before wait, sleeping in wait, or
\* with its request out) never exceeds max_workers, however many worklist
\* entries there are; the tasks beyond that wait in the pool's queue.
C16_PoolBounded ==
    /\ Cardinality(Running) <= max_workers
    /\ hpc = "fetching" =>
          \A t \in 1..Len(tasks) :
              tasks[t].pc \in {"queued", "called", "sleeping", "request", "returned"}

\* more worklist entries than workers: one fetch is executing, with its
\* request out, and another entry waits in the queue for the worker
C16_Witness ==
    /\ hpc = "fetching"
    /\ Len(tasks) > max_workers
    /\ Cardinality(Running) = max_workers
    /\ \E t \in 1..Len(tasks) : tasks[t].pc = "queued"
    /\ \E t \in 1..Len(tasks) : tasks[t].pc = "request"

\* the requests a task has sent
Requests(t) == {k \in 1..Len(tasks[t].log) : tasks[t].log[k] = "request"}

\* C17: within one harvest there is no retry: a task invokes the fetcher at
\* most once and sends at most one request; when the fetch phase is over
\* there is exactly one task per fetch-eligible row, each invoked once, and
\* none for any other row, so that the invocations are as many as the
\* worklist entries; a fetch that failed stays the only fetch of its row:
\* its record_error is the last thing the row's task did.
C17_NoRetry ==
    /\ \A t \in 1..Len(tasks) :
          /\ tasks[t].calls <= 1
          /\ Cardinality(Requests(t)) <= 1
    /\ Len(collected) <= Len(tasks)
    /\ hpc \in {"merged", "done"} =>
          /\ Len(fetch_targets) = EligibleCount(rows, target_date)
          /\ Len(tasks) = Len(fetch_targets)
          /\ Len(collected) = Len(tasks)
          /\ \A t \in 1..Len(tasks) :
                /\ tasks[t].calls = 1
                /\ tasks[t].pj_id = fetch_targets[t][2]
                /\ tasks[t].outcome \in NetOutcomes =>
                      Cardinality(Requests(t)) = 1
                /\ tasks[t].outcome \in FetchFailures =>
                      /\ tasks[t].pc = "returned"
                      /\ tasks[t].log = <<"wait", "request", "record_error">>
          /\ \A k \in 1..Len(rows) :
                Cardinality(TargetsFor(RowIndex(k))) =
                    IF Eligible(rows[k], target_date) THEN 1 ELSE 0

\* a harvest of an eligible row and a pre-filtered row has returned; the
\* one fetch failed and was not repeated
C17_Witness ==
    /\ hpc = "done"
    /\ Len(rows) = 2
    /\ Len(tasks) = 1
    /\ tasks[1].outcome = "net_err"
    /\ tasks[1].calls = 1
    /\ tasks[1].log = <<"wait", "request", "record_error">>
    /\ \E j \in 1..Len(results) : results[j].status = ST_fetch_error

\* the threads inside wait()
Sleeping == {t \in 1..Len(tasks) : tasks[t].pc = "sleeping"}

\* C18: concurrent wait() calls on the shared limiter are serialized.  The
\* last return from wait() came at least its own dynamic_delay after the
\* last_request_time it read; a call inside wait() read the
\* last_request_time of the latest return, and it is the only call inside
\* wait(), so no two calls base their wait on the same last_request_time;
\* it sleeps exactly max(0, delay - elapsed), which is no sleep at all
\* when it came at least the delay after the previous dispatch.
C18_WaitSerialized ==
    /\ dispatched.gap >= dispatched.delay
    /\ Cardinality(Sleeping) <= 1
    /\ \A t \in Sleeping :
          /\ tasks[t].based_on = dispatched.n
          /\ tasks[t].delay = dynamic_delay(base_delay, max_delay,
                                            error_count, success_count)
          /\ tasks[t].sleep0 = IF tasks[t].snap >= tasks[t].delay THEN 0
                               ELSE tasks[t].delay - tasks[t].snap
          /\ sleep_left[t] <= tasks[t].sleep0

\* two threads; two calls have returned from wait(), the later one after
\* a sleep; a third call came late and does not sleep
C18_Witness ==
    /\ Len(tasks) >= 2
    /\ dispatched.n >= 2
    /\ dispatched.slept > 0
    /\ \E t \in Sleeping : tasks[t].snap >= tasks[t].delay /\ tasks[t].sleep0 = 0

\* what a record call does to the counters when it runs alone
SerialRecord(op, before) ==
    IF op = "record_error"
    THEN Entry(op, before.errors + 1, before.successes)
    ELSE Entry(op,
               IF (before.successes + 1) % 5 = 0 /\ before.errors > 0
               THEN before.errors - 1 ELSE before.errors,
               before.successes + 1)

\* the record calls of one kind that have ended
Recorded(op) == {k \in 2..Len(committed) : committed[k].op = op}

\* the successes that made success_count a multiple of 5 while error_count
\* was positive
Decays ==
    {k \in Recorded("record_success") :
        committed[k].successes % 5 = 0 /\ committed[k - 1].errors > 0}

\* C19: no update of the counters is lost under concurrent record_success,
\* record_error and wait calls.  Every record call leaves the counters as
\* it would running alone after the call before it; success_count is the
\* starting count plus the successes recorded, and error_count the
\* starting count plus the errors recorded minus the decays.
C19_NoLostUpdate ==
    /\ \A k \in 2..Len(committed) :
          committed[k] = SerialRecord(committed[k].op, committed[k - 1])
    /\ success_count = committed[1].successes
                        + Cardinality(Recorded("record_success"))
    /\ error_count = committed[1].errors + Cardinality(Recorded("record_error"))
                      - Cardinality(Decays)
    /\ error_count >= 0

\* two threads recorded successes and an error, a decay was applied, and
\* a call is inside wait() while the last record ended
C19_Witness ==
    /\ Len(tasks) >= 2
    /\ Recorded("record_success") # {}
    /\ Recorded("record_error") # {}
    /\ Decays # {}
    /\ Sleeping # {}

\* the workers that have been given a limiter, or a session
HoldsLimiter == {t \in 1..Len(tasks) : tasks[t].limiter # 0}
HoldsSession == {t \in 1..Len(tasks) : tasks[t].session # 0}

\* C20: the global limiter and the global session are constructed at most
\* once, and all workers use the same limiter and the same session, also
\* when several workers make their first call concurrently.
C20_OneLimiterOneSession ==
    /\ limiters_made <= 1
    /\ sessions_made <= 1
    /\ \A t, u \in HoldsLimiter : tasks[t].limiter = tasks[u].limiter
    /\ \A t, u \in HoldsSession : tasks[t].session = tasks[u].session

\* C21: the three phases of a harvest are strictly ordered.  While phase 1
\* runs nothing is submitted; once tasks are submitted every row has been
\* pre-filtered (each row is a result or a worklist entry); the merge, the
\* sort and the return come only when every submitted task has returned
\* and been collected, with no worker running.
C21_PhasesOrdered ==
    /\ hpc \in {"idle", "phase1", "raised"} => tasks = << >>
    /\ tasks # << >> =>
          /\ next_i = Len(rows) + 1
          /\ Len(tasks) = Len(fetch_targets)
          /\ Len(rows) = Len(fetch_targets)
                + Cardinality({k \in 1..Len(results) :
                                 results[k].status \notin {ST_ok, ST_fetch_error}})
    /\ (hpc \in {"merged", "done"} \/ fetch_results # << >>) =>
          /\ Running = {}
          /\ AllReturned
          /\ Len(collected) = Len(tasks)
    /\ hpc = "done" => Len(results) = Len(rows)

\* a harvest of two rows, both fetched by two workers, has returned
C21_Witness ==
    /\ hpc = "done"
    /\ max_workers = 2
    /\ Len(tasks) = 2
    /\ Len(results) = 2

\* the delay wait() computes from the counters as they are
DelayNow == dynamic_delay(base_delay, max_delay, error_count, success_count)

\* C22: the limiter recovers after a healthy period.  When only
\* record_success() (and wait()) is called from some point on, error_count
\* reaches 0 and the delay wait() computes becomes base_delay, and both
\* stay so.
C22_Recovers ==
    <>[](/\ error_count = 0
         /\ DelayNow = base_delay
         /\ (lock # 0 => last_delay = base_delay))

\* the success that took the last error off has been recorded, and wait()
\* has computed base_delay after it
C22_Witness ==
    /\ win # << >>
    /\ LastRecord.op = "record_success"
    /\ LastRecord.errors = 1
    /\ error_count = 0
    /\ lock # 0
    /\ last_delay = base_delay

\* C23: in every limiter state the counters are not negative, the error
\* rate error_count / max(1, error_count + success_count) is in [0, 1],
\* the delay wait() computes is between base_delay and max_delay, and it is
\* base_delay when error_count is 0 (a fresh limiter included).
C23_DelayBounded ==
    /\ error_count >= 0
    /\ success_count >= 0
    /\ error_count <= Max(1, error_count + success_count)
    /\ base_delay <= DelayNow
    /\ DelayNow <= max_delay
    /\ error_count = 0 => DelayNow = base_delay
    /\ lock # 0 =>
          /\ last_delay = DelayNow
          /\ base_delay <= last_delay /\ last_delay <= max_delay

\* wait() has computed a delay strictly between base_delay and max_delay
C23_Witness ==
    /\ lock # 0
    /\ error_count > 0
    /\ success_count > 0
    /\ base_delay < last_delay
    /\ last_delay < max_delay

\* wait() on a fresh limiter
C23_WitnessFresh ==
    /\ lock # 0
    /\ error_count = 0
    /\ success_count = 0
    /\ win = << >>
    /\ last_delay = base_delay

\* the three paths have all been applied to the row
AllPathsRun ==
    paths.fast # << >> /\ paths.single # << >> /\ paths.ga4 # << >>

\* C25: the three copies of the eligibility logic behave alike.  For every
\* row and target date, phase 1 of the fast harvester, the single-row path
\* and the GA4 path agree on whether the row is fetched, and when it is
\* not, on the skip status (and on the id shown and the placeholders).
C25_PathsAgree ==
    AllPathsRun =>
        LET fast == paths.fast[1]
            single == paths.single[1]
            ga4 == paths.ga4[1]
        IN  /\ fast.kind \in {"target", "result"}
            /\ (fast.kind = "target") = single.fetch
            /\ single.fetch = ga4.fetch
            /\ fast.kind = "result" =>
                  /\ fast.result.status = single.result.status
                  /\ single.result.status = ga4.result.status
                  /\ fast.result = single.result
                  /\ fast.result.pj_id = ga4.result.pj_id
                  /\ ga4.result.sessions = PLACEHOLDER

\* a row with an id and the date 2024/02/30: all three paths skip it
C25_Witness ==
    /\ AllPathsRun
    /\ rows[1] = RowOf("p1", D_0230)
    /\ paths.fast[1].kind = "result"
    /\ paths.fast[1].result.status = MSG_date_parse_error
    /\ paths.ga4[1].result.status = MSG_date_parse_error
    /\ ~paths.single[1].fetch

\* a row on the target date itself: all three paths fetch it
C25_WitnessFetch ==
    /\ AllPathsRun
    /\ rows[1] = RowOf("p1", D_0601)
    /\ target_date = <<2024, 6, 1>>
    /\ paths.fast[1].kind = "target"
    /\ paths.single[1].fetch
    /\ paths.ga4[1].fetch

\* the statuses a row of the production tools can end with
SkipStatuses == {MSG_skip, ST_no_end_date, MSG_date_parse_error, ST_not_in_window}
FailStatuses == {ST_fetch_error} \cup ErrorTexts

\* a row with one status, and with metrics only under the ok status
WellFormedRow(r) ==
    /\ DOMAIN r = {"row", "pj_id", "amount", "count", "status"}
    /\ r.status \in SkipStatuses \cup FailStatuses \cup {ST_ok}
    /\ r.status # ST_ok => (r.amount = PLACEHOLDER /\ r.count = PLACEHOLDER)

\* C24: in every result list of the production harvester, fast or
\* single-row, each row has exactly one status, and the amount and the
\* count of every skipped row and every failed row are the placeholder.
C24_MetricsOnlyWhenOk ==
    /\ \A k \in 1..Len(results) : WellFormedRow(results[k])
    /\ \A k \in 1..Len(paths.safe) : WellFormedRow(paths.safe[k])

\* both modes have run on a skipped row and a row whose fetch failed, and
\* on a sheet where a row was fetched
C24_Witness ==
    /\ hpc = "done"
    /\ Len(results) = 2
    /\ results[1].status \in SkipStatuses
    /\ results[2].status = ST_fetch_error
    /\ paths.safe[1].status \in SkipStatuses
    /\ paths.safe[2].status \in ErrorTexts

\* both modes have fetched a row and marked it ok, with its metrics
C24_WitnessOk ==
    /\ hpc = "done"
    /\ \E k \in 1..Len(results) :
          /\ results[k].status = ST_ok
          /\ results[k].amount = PageAmount(results[k].pj_id)
          /\ paths.safe[k] = results[k]

\* the cells the write step writes for a results list: the row, the
\* amount and the count of every row with the ok status
OkCells(rs) ==
    {<<rs[k].row, rs[k].amount, rs[k].count>> :
        k \in {j \in 1..Len(rs) : rs[j].status = ST_ok}}

\* C28: for the same rows, target date and outcome per project, safe mode
\* and fast mode mark the same rows ok, with the same amount and count.
C28_ModesAgree ==
    (hpc = "done" /\ SafeDone) => OkCells(results) = OkCells(paths.safe)

\* C26: the batch returns one entry per submitted project id, in the order
\* of submission, the entry at position k carrying that id and the outcome
\* of the task submitted for position k, whatever the order of completion
\* and also when an id occurs at several positions.
C26_OwnResultPerPosition ==
    (hpc \in {"merged", "done"} /\ tasks # << >>) =>
        /\ Len(fetch_results) = Len(tasks)
        /\ \A k \in 1..Len(tasks) :
              fetch_results[k] =
                  fetch_single_project(tasks[k].pj_id, tasks[k].outcome)

\* the places (batch, position) of the batches sent that hold the cell
PlacesOf(cell) ==
    {pl \in {<<b, e>> : b \in 1..Len(writer.sent), e \in 1..BatchLimit(writer.tool)} :
        /\ pl[2] <= Len(writer.sent[pl[1]])
        /\ writer.sent[pl[1]][pl[2]] = cell}

\* the stored rows with the ok status
OkStored == {k \in 1..Len(session_results) : session_results[k].status = ST_ok}

RECURSIVE TotalLen(_)
TotalLen(batches) ==
    IF batches = << >> THEN 0
    ELSE Len(batches[1]) + TotalLen(Tail(batches))

\* C27: when the write step has ended without an error, the batches sent
\* hold the cells of every stored row with the ok status (N and P, or X
\* in the GA4 tool), each cell in exactly one place, and no other cell;
\* no batch is empty, none is longer than the limit (2 * BATCH_SIZE, or
\* BATCH_SIZE), and nothing is left in batch_data.
C27_BatchesExact ==
    writer.pc = "done" =>
        /\ \A k \in OkStored :
              \A c \in 1..Len(Cells(writer.tool, session_results[k])) :
                 Cardinality(PlacesOf(Cells(writer.tool, session_results[k])[c])) = 1
        /\ TotalLen(writer.sent)
              = Cardinality(OkStored) * (IF writer.tool = "production" THEN 2 ELSE 1)
        /\ \A b \in 1..Len(writer.sent) :
              /\ writer.sent[b] # << >>
              /\ Len(writer.sent[b]) <= BatchLimit(writer.tool)
        /\ writer.batch_data = << >>
        /\ writer.idx = Len(session_results)

\* the production tool has written more than BATCH_SIZE ok rows, next to
\* failed ones: a full batch was sent in the loop and the rest after it
C27_Witness ==
    /\ writer.pc = "done"
    /\ writer.tool = "production"
    /\ Len(writer.sent) = 2
    /\ Len(writer.sent[1]) = 2 * BATCH_SIZE
    /\ Len(writer.sent[2]) < 2 * BATCH_SIZE
    /\ Cardinality(OkStored) < Len(session_results)

\* the GA4 tool has written exactly 2 * BATCH_SIZE ok rows: nothing is
\* left for the send after the loop
C27_WitnessGA4 ==
    /\ writer.pc = "done"
    /\ writer.tool = "ga4"
    /\ Len(writer.sent) = 2
    /\ Len(writer.sent[2]) = BATCH_SIZE
    /\ Len(session_results) = 2 * BATCH_SIZE

\* the stored row k of the amount tool may be written: its id cell was
\* read and held an id, and its amount is no error text and not the
\* sentinel
Writable(k) ==
    /\ rows[k] # << >>
    /\ session_results[k].pj_id = rows[k][1]
    /\ ~ContainsError(session_results[k].amount)
    /\ session_results[k].amount # MSG_fetch_failed

\* C29: in the amount tool the fetch step gives one result per row of
\* start_row..end_row, in ascending order, and no failure on a row stops
\* the loop; the write step writes D{row} only for rows that may be
\* written, logs a failed write for its row and goes on: when it has
\* ended every stored row has its log entry, and every row that may be
\* written was attempted.
C29_AmountTool ==
    /\ hpc = "failed" => (results = << >> /\ next_i = 1)
    /\ hpc \in {"rows", "done"} =>
          /\ Len(results) = next_i - 1
          /\ \A k \in 1..Len(results) : results[k].row = start_row + k - 1
    /\ hpc = "done" =>
          /\ session_results = results
          /\ Len(session_results) = Len(rows)
    /\ writer.pc = "failed" => (writer.write_log = << >> /\ writer.sent = << >>)
    /\ Len(writer.write_log) = writer.idx
    /\ Len(writer.sent) =
          Cardinality({k \in 1..writer.idx : writer.write_log[k][2] = "written"})
    /\ \A k \in 1..writer.idx :
          /\ writer.write_log[k][1] = session_results[k].row
          /\ writer.write_log[k][2] \in {"written", "write-error"} <=> Writable(k)
          /\ writer.write_log[k][2] = "written" =>
                \E e \in 1..Len(writer.sent) :
                   writer.sent[e] = [range |-> <<"D", session_results[k].row>>,
                                     value |-> session_results[k].amount]
    /\ writer.pc = "done" => writer.idx = Len(session_results)

\* three rows: the fetch of the first failed, the write of the second
\* failed, the third was written
C29_Witness ==
    /\ writer.pc = "done"
    /\ Len(session_results) = 3
    /\ session_results[1].amount = ERR_scraping_net
    /\ writer.write_log[1][2] = "skip"
    /\ writer.write_log[2][2] = "write-error"
    /\ writer.write_log[3][2] = "written"
    /\ writer.sent = <<[range |-> <<"D", 4>>, value |-> session_results[3].amount]>>

\* C30: a harvest terminates without deadlock.  Although wait() keeps the
\* limiter's lock through its sleep, a harvest whose phase 1 has read the
\* last row comes to its return: every submitted task has completed, no
\* lock is held and the results list has an entry per row.
C30_HarvestTerminates ==
    (hpc = "phase1" /\ next_i > Len(rows)) ~>
        (/\ hpc = "done"
         /\ AllReturned
         /\ lock = 0
         /\ Len(tasks) = Len(fetch_targets)
         /\ Len(results) = Len(rows))

\* a worker sleeps inside wait() holding the lock while the other worker's
\* request has been sent: its record call has to wait for the lock
C30_Witness ==
    \E t, u \in 1..Len(tasks) :
        /\ t # u
        /\ tasks[t].pc = "sleeping"
        /\ lock = t
        /\ tasks[u].pc = "request"

====
